---- MODULE Spec2Model ----
(***************************************************************************)
(* A model of the soil data processor (processsoildata.py): the value      *)
(* normalizer (formatdate_vectorized, remove_invalid_values_vectorized,    *)
(* celsius_to_fahrenheit_vectorized, process_dataframe_optimized), the     *)
(* batch loader (bulk_insert_optimized) against a sink with the table of   *)
(* create_table_if_not_exists, and the orchestrator (main, load_env_vars,  *)
(* processdata); with the schema registry (fieldmappings.py) and the       *)
(* fixed-width decoder it drives (pd.read_fwf).                            *)
(*                                                                         *)
(* Text is a sequence of one-character strings.  A cell of a frame is a    *)
(* tagged value: text, a number, NaN or None.  Numbers are exact decimals  *)
(* held as integers in units of 1/Scale; float64 rounding is not modelled. *)
(***************************************************************************)
EXTENDS Integers, Sequences, FiniteSets, TLC

\* ------------------------------------------------------------------ bounds

MaxStrLen == 2
MaxRows == 2
MaxFiles == 2
MaxBatchSize == 2

\* ------------------------------------------------------------------- cells

Scale == 10 * 1000

Str(s) == [t |-> "str", s |-> s, v |-> 0]
Num(n) == [t |-> "num", s |-> <<>>, v |-> n]
NaN == [t |-> "nan", s |-> <<>>, v |-> 0]
None == [t |-> "none", s |-> <<>>, v |-> 0]
Raised == [t |-> "raise", s |-> <<>>, v |-> 0]

\* pd.isna of a scalar
isna(c) == c.t \in {"nan", "none"}

Digits == {"0", "1", "2", "3", "4", "5", "6", "7", "8", "9"}

DigitVal(c) ==
    CASE c = "0" -> 0 [] c = "1" -> 1 [] c = "2" -> 2 [] c = "3" -> 3
      [] c = "4" -> 4 [] c = "5" -> 5 [] c = "6" -> 6 [] c = "7" -> 7
      [] c = "8" -> 8 [] c = "9" -> 9

\* str.isdigit(): non-empty and every character a digit
isdigit(s) == Len(s) > 0 /\ \A i \in 1..Len(s) : s[i] \in Digits

RECURSIVE lstrip(_)
lstrip(s) == IF s # <<>> /\ Head(s) = " " THEN lstrip(Tail(s)) ELSE s

RECURSIVE rstrip(_)
rstrip(s) ==
    IF s # <<>> /\ s[Len(s)] = " " THEN rstrip(SubSeq(s, 1, Len(s) - 1)) ELSE s

\* str.strip()
strip(s) == rstrip(lstrip(s))

\* str.zfill(width) of a string of digits
RECURSIVE zfill(_, _)
zfill(s, width) == IF Len(s) >= width THEN s ELSE zfill(<<"0">> \o s, width)

nan_str == <<"n", "a", "n">>

\* Series.astype(str) of one cell: text stays, a missing cell reads "nan"
astype_str(c) ==
    CASE c.t = "str" -> c.s
      [] c.t = "nan" -> nan_str
      [] c.t = "none" -> <<"N", "o", "n", "e">>
      [] OTHER -> <<"#">>

\* the value of a string of digits
RECURSIVE DigitsVal(_)
DigitsVal(s) ==
    IF s = <<>> THEN 0
    ELSE 10 * DigitsVal(SubSeq(s, 1, Len(s) - 1)) + DigitVal(s[Len(s)])

\* -------------------------------------------------------------- timestamps

Timestamp(y, mo, d, h, mi) ==
    [valid |-> TRUE, y |-> y, mo |-> mo, d |-> d, h |-> h, mi |-> mi]

\* pandas NaT, "Not a Time"
NaT == [valid |-> FALSE, y |-> 0, mo |-> 0, d |-> 0, h |-> 0, mi |-> 0]

Has(s, p, n) == p >= 1 /\ p + n - 1 <= Len(s)

TwoDigits(s, p) ==
    IF Has(s, p, 2) /\ s[p] \in Digits /\ s[p + 1] \in Digits
    THEN 10 * DigitVal(s[p]) + DigitVal(s[p + 1])
    ELSE -1

OneDigit(s, p) == IF Has(s, p, 1) /\ s[p] \in Digits THEN DigitVal(s[p]) ELSE -1

\* The alternatives of one directive of the format that match at position p,
\* as <<length, value>>, in the order the regular expression tries them.
\* %m is 1[0-2]|0[1-9]|[1-9]
OptsMonth(s, p) ==
    (IF TwoDigits(s, p) \in 1..12 THEN << <<2, TwoDigits(s, p)>> >> ELSE <<>>)
    \o (IF OneDigit(s, p) \in 1..9 THEN << <<1, OneDigit(s, p)>> >> ELSE <<>>)

\* %d is 3[0-1]|[1-2]\d|0[1-9]|[1-9]| [1-9]
OptsDay(s, p) ==
    (IF TwoDigits(s, p) \in 1..31 THEN << <<2, TwoDigits(s, p)>> >> ELSE <<>>)
    \o (IF OneDigit(s, p) \in 1..9 THEN << <<1, OneDigit(s, p)>> >> ELSE <<>>)
    \o (IF Has(s, p, 2) /\ s[p] = " " /\ OneDigit(s, p + 1) \in 1..9
        THEN << <<2, OneDigit(s, p + 1)>> >> ELSE <<>>)

\* %H is 2[0-3]|[0-1]\d|\d
OptsHour(s, p) ==
    (IF TwoDigits(s, p) \in 0..23 THEN << <<2, TwoDigits(s, p)>> >> ELSE <<>>)
    \o (IF OneDigit(s, p) \in 0..9 THEN << <<1, OneDigit(s, p)>> >> ELSE <<>>)

\* %M is [0-5]\d|\d
OptsMinute(s, p) ==
    (IF TwoDigits(s, p) \in 0..59 THEN << <<2, TwoDigits(s, p)>> >> ELSE <<>>)
    \o (IF OneDigit(s, p) \in 0..9 THEN << <<1, OneDigit(s, p)>> >> ELSE <<>>)

FieldOpts(k, s, p) ==
    CASE k = 1 -> OptsMonth(s, p)
      [] k = 2 -> OptsDay(s, p)
      [] k = 3 -> OptsHour(s, p)
      [] k = 4 -> OptsMinute(s, p)

\* re.match of %m%d%H%M from position p on: the first way, in backtracking
\* order, to match directives k..4; <<mo, d, h, mi, end>> or <<>> for no match
RECURSIVE MatchFields(_, _, _, _)
RECURSIVE TryOpts(_, _, _, _, _)
MatchFields(s, p, k, acc) ==
    IF k > 4 THEN Append(acc, p) ELSE TryOpts(s, p, k, acc, FieldOpts(k, s, p))

TryOpts(s, p, k, acc, opts) ==
    IF opts = <<>> THEN <<>>
    ELSE LET o == Head(opts)
             m == MatchFields(s, p + o[1], k + 1, Append(acc, o[2]))
         IN  IF m # <<>> THEN m ELSE TryOpts(s, p, k, acc, Tail(opts))

IsLeap(y) == (y % 4 = 0 /\ y % 100 # 0) \/ y % 400 = 0

DaysInMonth(y, mo) ==
    CASE mo \in {1, 3, 5, 7, 8, 10, 12} -> 31
      [] mo \in {4, 6, 9, 11} -> 30
      [] OTHER -> IF IsLeap(y) THEN 29 ELSE 28

\* pd.to_datetime(text, format='%Y%m%d%H%M', errors='coerce') of one element:
\* the format must match from the start (%Y is \d\d\d\d), the match must end
\* at the end of the text, and the fields must name a calendar date inside
\* the range a pandas Timestamp holds (the years 1678..2261 in full); anything
\* else is coerced to NaT.
to_datetime(text) ==
    IF ~(Len(text) >= 4 /\ \A i \in 1..4 : text[i] \in Digits) THEN NaT
    ELSE LET y == DigitsVal(SubSeq(text, 1, 4))
             m == MatchFields(text, 5, 1, <<>>)
         IN  IF m = <<>> THEN NaT
             ELSE IF m[5] # Len(text) + 1 THEN NaT
             ELSE IF m[2] > DaysInMonth(y, m[1]) THEN NaT
             ELSE IF y < 1678 \/ y > 2261 THEN NaT
             ELSE Timestamp(y, m[1], m[2], m[3], m[4])

\* safe_zfill: pad only a non-empty, all-digit time
safe_zfill(time_str) ==
    IF time_str = <<>> \/ time_str = nan_str \/ ~isdigit(time_str)
    THEN time_str
    ELSE zfill(time_str, 4)

\* formatdate_vectorized, one element of the two columns
formatdate_vectorized(date, time) ==
    LET dates_str == strip(astype_str(date))
        times_str == safe_zfill(strip(astype_str(time)))
        invalid_mask == \/ dates_str = <<>> \/ dates_str = nan_str
                        \/ times_str = <<>> \/ times_str = nan_str
        combined == IF invalid_mask THEN <<>> ELSE dates_str \o times_str
    IN  to_datetime(combined)

\* formatdate(date_str, time_str), lines 349-357: the vectorized function on
\* one pair; NaT is returned as None
formatdate(date_str, time_str) ==
    LET result == formatdate_vectorized(date_str, time_str)
    IN  IF ~result.valid THEN None ELSE result

\* ---------------------------------------------------------------- numbers

\* the first '.' of a text, or 0
RECURSIVE DotAt(_, _)
DotAt(s, i) ==
    IF i > Len(s) THEN 0 ELSE IF s[i] = "." THEN i ELSE DotAt(s, i + 1)

AllDigits(s) == \A i \in 1..Len(s) : s[i] \in Digits

\* the fraction digits as a count of 1/Scale (digits past the fourth are cut:
\* no text of the model has that many)
FracVal(f) ==
    LET f4 == SubSeq(f \o <<"0", "0", "0", "0">>, 1, 4) IN DigitsVal(f4)

\* the unsigned decimal [digits][.digits], at least one digit; -1 when the
\* text is no such number
UnsignedVal(b) ==
    LET dot == DotAt(b, 1)
        ip == IF dot = 0 THEN b ELSE SubSeq(b, 1, dot - 1)
        fp == IF dot = 0 THEN <<>> ELSE SubSeq(b, dot + 1, Len(b))
    IN  IF AllDigits(ip) /\ AllDigits(fp) /\ Len(ip) + Len(fp) > 0
        THEN DigitsVal(ip) * Scale + FracVal(fp)
        ELSE -1

\* pd.to_numeric(series, errors='coerce') of one cell: a number stays, text
\* that reads as a signed decimal becomes that number, everything else
\* (other text, the empty text, a missing cell) becomes NaN
to_numeric(c) ==
    CASE c.t = "num" -> c
      [] c.t = "str" ->
            LET s == strip(c.s)
                neg == s # <<>> /\ Head(s) = "-"
                sgn == s # <<>> /\ Head(s) \in {"-", "+"}
                u == UnsignedVal(IF sgn THEN Tail(s) ELSE s)
            IN  IF u < 0 THEN NaN ELSE Num(IF neg THEN -u ELSE u)
      [] OTHER -> NaN

\* remove_invalid_values_vectorized as processsoildata_optimized.py has it:
\* the sentinels are replaced with no numeric coercion before
remove_invalid_values_uncoerced(c) ==
    IF c.t = "num" /\ c.v \in {-99 * Scale, -9999 * Scale} THEN NaN ELSE c

\* invalid_values = [-99.000, -9999.0, -9999]
invalid_values == {-99 * Scale, -9999 * Scale, -9999 * Scale}

remove_invalid_values_vectorized(c) ==
    LET series_numeric == to_numeric(c)
    IN  IF series_numeric.t = "num" /\ series_numeric.v \in invalid_values
        THEN NaN
        ELSE series_numeric

\* the conversion with the factor upside down
celsius_to_fahrenheit_inverted(c) ==
    CASE c.t = "num" -> Num((c.v * 5) \div 9 + 32 * Scale)
      [] c.t = "nan" -> NaN
      [] OTHER -> Raised

\* celsius_series * 9/5 + 32 of one element: NaN stays NaN; text or None
\* cannot be divided and raises TypeError.  The quotient is exact for every
\* number of the model (a multiple of 5/Scale).
celsius_to_fahrenheit_vectorized(c) ==
    CASE c.t = "num" -> Num((c.v * 9) \div 5 + 32 * Scale)
      [] c.t = "nan" -> NaN
      [] OTHER -> Raised

\* removevaluesnotrecorded(value)
removevaluesnotrecorded(value) ==
    LET result == remove_invalid_values_vectorized(value)
    IN  IF isna(result) THEN None ELSE result

\* converttofarenheit(celsius)
converttofarenheit(celsius) ==
    IF celsius = None THEN None
    ELSE LET result == celsius_to_fahrenheit_vectorized(celsius)
         IN  IF result.t = "raise" THEN Raised
             ELSE IF isna(result) THEN None ELSE result

\* ------------------------------------------------------------------ frames

\* the columns of a frame the pipeline reads (fieldmappings.field_names has
\* 38; the others pass through like WBANNO)
\* the conversion taken to the precipitation column as well
temp_columns_with_precipitation ==
    <<"SOIL_TEMP_5", "SOIL_TEMP_10", "SOIL_TEMP_20", "SOIL_TEMP_50",
      "SOIL_TEMP_100", "T_CALC", "T_HR_AVG", "P_CALC">>

temp_columns ==
    <<"SOIL_TEMP_5", "SOIL_TEMP_10", "SOIL_TEMP_20", "SOIL_TEMP_50",
      "SOIL_TEMP_100", "T_CALC", "T_HR_AVG">>

other_columns == <<"P_CALC", "RH_HR_AVG">>

text_columns == <<"WBANNO", "UTC_DATE", "UTC_TIME", "LST_DATE", "LST_TIME">>

Range(s) == {s[i] : i \in 1..Len(s)}

MeasureCols == Range(temp_columns) \cup Range(other_columns)

RawCols == Range(text_columns) \cup MeasureCols

\* A row as pd.read_fwf yields it with dtype=object: text cells
BaseRow ==
    [c \in RawCols |->
        CASE c = "WBANNO" -> Str(<<"5", "3", "1", "0", "4">>)
          [] c = "UTC_DATE" -> Str(<<"2", "0", "2", "2", "0", "3", "1", "5">>)
          [] c = "UTC_TIME" -> Str(<<"1", "4", "3", "0">>)
          [] c = "LST_DATE" -> Str(<<"2", "0", "2", "2", "0", "3", "1", "5">>)
          [] c = "LST_TIME" -> Str(<<"0", "9", "3", "0">>)
          [] c = "SOIL_TEMP_5" -> Str(<<"1", "5", ".", "5">>)
          [] c = "SOIL_TEMP_10" -> Str(<<"1", "6", ".", "2">>)
          [] c = "SOIL_TEMP_20" -> Str(<<"1", "8", ".", "0">>)
          [] c = "SOIL_TEMP_50" -> Str(<<"2", "0", ".", "5">>)
          [] c = "SOIL_TEMP_100" -> Str(<<"2", "2", ".", "1">>)
          [] c = "T_CALC" -> Str(<<"2", "5", ".", "0">>)
          [] c = "T_HR_AVG" -> Str(<<"2", "4", ".", "5">>)
          [] c = "P_CALC" -> Str(<<"2", ".", "5">>)
          [] c = "RH_HR_AVG" -> Str(<<"6", "8", ".", "5">>)]

\* a reading of a station in another time zone: another UTC time, the same
\* local time, other values, two of them sentinels, unreadable humidity
RowOtherZone ==
    [BaseRow EXCEPT !["WBANNO"] = Str(<<"0", "3", "0", "4", "7">>),
                    !["UTC_TIME"] = Str(<<"1", "5", "3", "0">>),
                    !["SOIL_TEMP_5"] = Str(<<"-", "9", "9", ".", "0", "0", "0">>),
                    !["SOIL_TEMP_20"] = Str(<<"-", "9", "9", "9", "9", ".", "0">>),
                    !["T_CALC"] = Str(<<"-", "4", "0">>),
                    !["RH_HR_AVG"] = Str(<<"a", "b", "c">>)]

\* the same UTC time with a later local time, written without its leading
\* zero; no measurement was recorded: every field is a sentinel or blank
RowNext ==
    [c \in RawCols |->
        CASE c = "LST_TIME" -> Str(<<"9", "4", "5">>)
          [] c \in {"SOIL_TEMP_5", "SOIL_TEMP_100"} ->
                Str(<<"-", "9", "9", ".", "0", "0", "0">>)
          [] c \in {"SOIL_TEMP_10", "SOIL_TEMP_20", "T_CALC"} ->
                Str(<<"-", "9", "9", "9", "9", ".", "0">>)
          [] c \in {"SOIL_TEMP_50", "T_HR_AVG"} -> NaN
          [] c \in {"P_CALC", "RH_HR_AVG"} -> Str(<<"-", "9", "9", "9", "9">>)
          [] OTHER -> BaseRow[c]]

\* month 13 in the UTC date
RowBadUtc == [BaseRow EXCEPT !["UTC_DATE"] = Str(<<"2", "0", "2", "2", "1", "3", "1", "5">>)]

\* a blank local time field
RowBadLst == [BaseRow EXCEPT !["LST_TIME"] = NaN]

RawRows == {BaseRow, RowOtherZone, RowNext, RowBadUtc, RowBadLst}

\* the reading of BaseRow with two sentinels, and nothing else changed
RowSentinels ==
    [BaseRow EXCEPT !["SOIL_TEMP_5"] = Str(<<"-", "9", "9", ".", "0", "0">>),
                    !["SOIL_TEMP_20"] = Str(<<"-", "9", "9", "9", "9", ".", "0">>)]

\* the same a quarter of an hour later
RowSentinelsNext ==
    [RowSentinels EXCEPT !["UTC_TIME"] = Str(<<"1", "4", "4", "5">>),
                         !["LST_TIME"] = Str(<<"0", "9", "4", "5">>)]

\* the frames read_fwf can return: up to MaxRows rows
Frames == UNION {[1..n -> RawRows] : n \in 0..MaxRows}

\* lines 80-81: the two derived columns of one row
WithDatetimes(row) ==
    [c \in DOMAIN row \cup {"UTC_DATETIME", "LOCAL_DATETIME"} |->
        CASE c = "UTC_DATETIME" ->
                formatdate_vectorized(row["UTC_DATE"], row["UTC_TIME"])
          [] c = "LOCAL_DATETIME" ->
                formatdate_vectorized(row["LST_DATE"], row["LST_TIME"])
          [] OTHER -> row[c]]

\* dropna with no subset: a row with any missing cell goes
dropna_keeps_no_subset(row) ==
    \A c \in DOMAIN row :
        IF c \in {"UTC_DATETIME", "LOCAL_DATETIME"} THEN row[c].valid
        ELSE row[c] # NaN

\* dropna on the UTC column alone
dropna_keeps_utc_only(row) == row["UTC_DATETIME"].valid

\* line 112: dropna(subset=["UTC_DATETIME", "LOCAL_DATETIME"]) keeps a row
dropna_keeps(row) == row["UTC_DATETIME"].valid /\ row["LOCAL_DATETIME"].valid

\* the sentinels removed with a mask over whole rows: a row with a sentinel
\* in one measurement loses them all
NormalizeWholeRow(row) ==
    LET hit == \E c \in MeasureCols :
                  LET n == to_numeric(row[c])
                  IN  n.t = "num" /\ n.v \in invalid_values
    IN  [c \in DOMAIN row |->
            LET n == IF c \in Range(temp_columns)
                     THEN celsius_to_fahrenheit_vectorized(
                              remove_invalid_values_vectorized(row[c]))
                     ELSE IF c \in Range(other_columns)
                     THEN remove_invalid_values_vectorized(row[c])
                     ELSE row[c]
            IN  IF c \in {"UTC_DATETIME", "LOCAL_DATETIME"} THEN n
                ELSE IF c \in MeasureCols /\ hit THEN None
                ELSE IF n.t = "nan" THEN None ELSE n]

\* lines 130-135 and 139 on one row: sentinel removal and conversion of the
\* temperature columns, sentinel removal of the two others, NaN to None
Normalize(row) ==
    [c \in DOMAIN row |->
        LET n == IF c \in Range(temp_columns)
                 THEN celsius_to_fahrenheit_vectorized(
                          remove_invalid_values_vectorized(row[c]))
                 ELSE IF c \in Range(other_columns)
                 THEN remove_invalid_values_vectorized(row[c])
                 ELSE row[c]
        IN  IF c \in {"UTC_DATETIME", "LOCAL_DATETIME"} THEN n
            ELSE IF n.t = "nan" THEN None ELSE n]

\* nothing logged about removed rows
NoWarning ==
    [logged |-> FALSE, raised |-> "none", removed_count |-> 0,
     removal_percentage |-> 0, valid_records |-> 0, initial_count |-> 0]

\* the percentage computed whether rows were removed or not
removal_warning_unguarded(initial_count, final_count) ==
    LET removed_count == initial_count - final_count
    IN  IF initial_count = 0
        THEN [NoWarning EXCEPT !.raised = "ZeroDivisionError"]
        ELSE [logged |-> initial_count # final_count, raised |-> "none",
              removed_count |-> removed_count,
              removal_percentage |->
                  (removed_count * 2000 + initial_count) \div (2 * initial_count),
              valid_records |-> final_count,
              initial_count |-> initial_count]

\* lines 115-124: the warning about removed rows, its percentage in tenths
\* (round(removal_percentage, 1); no count of rows here gives a tie).  A
\* division by zero raises.
removal_warning(initial_count, final_count) ==
    IF initial_count # final_count
    THEN LET removed_count == initial_count - final_count
         IN  IF initial_count = 0
             THEN [NoWarning EXCEPT !.raised = "ZeroDivisionError"]
             ELSE [logged |-> TRUE, raised |-> "none",
                   removed_count |-> removed_count,
                   removal_percentage |->
                       (removed_count * 2000 + initial_count) \div (2 * initial_count),
                   valid_records |-> final_count,
                   initial_count |-> initial_count]
    ELSE NoWarning

\* process_dataframe_optimized(df): the frame it returns, row by row
process_dataframe_optimized(df) ==
    LET dated == [i \in 1..Len(df) |-> WithDatetimes(df[i])]
        kept == SelectSeq(dated, dropna_keeps)
    IN  [i \in 1..Len(kept) |-> Normalize(kept[i])]

\* ------------------------------------------- processsoildata_optimized.py
\* The functions of the same names in the other file of the repository.

\* formatdate_vectorized, lines 14-17, one element of the two columns: no
\* strip, zfill on every time, and no errors='coerce', so NaT here stands for
\* the ValueError that to_datetime raises
optimized_formatdate_vectorized(date, time) ==
    LET combined == astype_str(date) \o zfill(astype_str(time), 4)
    IN  to_datetime(combined)

\* remove_invalid_values_vectorized, lines 20-23: Series.replace with no
\* to_numeric before it, so only a number can equal a sentinel
optimized_remove_invalid_values_vectorized(c) ==
    IF c.t = "num" /\ c.v \in invalid_values THEN NaN ELSE c

\* lines 35-36: the two derived columns of one row
optimized_WithDatetimes(row) ==
    [c \in DOMAIN row \cup {"UTC_DATETIME", "LOCAL_DATETIME"} |->
        CASE c = "UTC_DATETIME" ->
                optimized_formatdate_vectorized(row["UTC_DATE"], row["UTC_TIME"])
          [] c = "LOCAL_DATETIME" ->
                optimized_formatdate_vectorized(row["LST_DATE"], row["LST_TIME"])
          [] OTHER -> row[c]]

\* lines 42-51 on one row; celsius_to_fahrenheit_vectorized, lines 26-28, is
\* the same function as in processsoildata.py
optimized_Normalize(row) ==
    [c \in DOMAIN row |->
        LET n == IF c \in Range(temp_columns)
                 THEN celsius_to_fahrenheit_vectorized(
                          optimized_remove_invalid_values_vectorized(row[c]))
                 ELSE IF c \in Range(other_columns)
                 THEN optimized_remove_invalid_values_vectorized(row[c])
                 ELSE row[c]
        IN  IF c \in {"UTC_DATETIME", "LOCAL_DATETIME"} THEN n
            ELSE IF n.t = "nan" THEN None ELSE n]

\* no call of the function yet
NoResult == [raised |-> "none", rows |-> <<>>]

\* process_dataframe_optimized(df), lines 31-53: the frame it returns, or the
\* exception it raises; no row is dropped
optimized_process_dataframe_optimized(df) ==
    LET dated == [k \in 1..Len(df) |-> optimized_WithDatetimes(df[k])]
        out == [k \in 1..Len(df) |-> optimized_Normalize(dated[k])]
    IN  IF \E k \in 1..Len(df) :
              ~dated[k]["UTC_DATETIME"].valid \/ ~dated[k]["LOCAL_DATETIME"].valid
        THEN [raised |-> "ValueError", rows |-> <<>>]
        ELSE IF \E k \in 1..Len(df) : \E c \in Range(temp_columns) :
                   out[k][c].t = "raise"
        THEN [raised |-> "TypeError", rows |-> <<>>]
        ELSE [raised |-> "none", rows |-> out]

\* -------------------------------------------------------------------- sink

\* the tuple led by the UTC timestamp
data_columns_utc_first ==
    <<"UTC_DATETIME", "SOIL_TEMP_5", "SOIL_TEMP_10", "SOIL_TEMP_20",
      "SOIL_TEMP_50", "SOIL_TEMP_100", "T_CALC", "T_HR_AVG", "P_CALC",
      "RH_HR_AVG">>

\* lines 148-149: the frame columns of a tuple, in order
data_columns ==
    <<"LOCAL_DATETIME", "SOIL_TEMP_5", "SOIL_TEMP_10", "SOIL_TEMP_20",
      "SOIL_TEMP_50", "SOIL_TEMP_100", "T_CALC", "T_HR_AVG", "P_CALC",
      "RH_HR_AVG">>

\* lines 159-160: the table columns the tuple's positions are inserted into
insert_columns ==
    <<"time", "SOIL_TEMP_5", "SOIL_TEMP_10", "SOIL_TEMP_20", "SOIL_TEMP_50",
      "SOIL_TEMP_100", "T_CALC", "T_HR_AVG", "P_CALC", "RH_HR_AVG">>

\* line 152: one tuple per row of the frame
data_tuples(df) ==
    [i \in 1..Len(df) |-> [k \in 1..Len(data_columns) |-> df[i][data_columns[k]]]]

\* lines 286-297: the columns declared INTEGER (the others are float8,
\* DECIMAL or the key)
integer_columns == {"SOIL_TEMP_5"}

\* a decimal assigned to an INTEGER column is rounded to the nearest whole
\* number, halves away from zero; NULL stays NULL
RoundToInteger(c) ==
    IF c.t # "num" THEN c
    ELSE IF c.v >= 0 THEN Num(((c.v + Scale \div 2) \div Scale) * Scale)
    ELSE Num(-(((-c.v + Scale \div 2) \div Scale) * Scale))

\* the table row a tuple becomes
ToRow(tuple) ==
    [c \in Range(insert_columns) |->
        LET k == CHOOSE j \in 1..Len(insert_columns) : insert_columns[j] = c
        IN  IF c \in integer_columns THEN RoundToInteger(tuple[k]) ELSE tuple[k]]

Keys(table) == {table[i]["time"] : i \in 1..Len(table)}

\* a statement with no conflict target: the row is inserted all the same
on_conflict_insert(pending, new) ==
    [error |-> "none", rows |-> Append(pending, new)]

\* a statement with no ON CONFLICT clause: the primary key rejects the row
on_conflict_raise(pending, new) ==
    [error |-> "UniqueViolation", rows |-> pending]

\* line 162, ON CONFLICT (time) DO NOTHING: a row whose key is taken is
\* skipped and the statement goes on
on_conflict(pending, new) == [error |-> "none", rows |-> pending]

\* The INSERT statement of lines 158-163 on one batch, against the rows the
\* transaction sees: the rows it adds, or the error that aborts it.  time is
\* NOT NULL and the PRIMARY KEY.
RECURSIVE InsertRows(_, _, _)
InsertRows(table, pending, batch) ==
    IF batch = <<>> THEN [error |-> "none", rows |-> pending]
    ELSE LET new == ToRow(Head(batch))
         IN  IF ~new["time"].valid
             THEN [error |-> "NotNullViolation", rows |-> <<>>]
             ELSE IF new["time"] \in Keys(table) \cup Keys(pending)
             THEN LET r == on_conflict(pending, new)
                  IN  IF r.error # "none" THEN [error |-> r.error, rows |-> <<>>]
                      ELSE InsertRows(table, r.rows, Tail(batch))
             ELSE InsertRows(table, Append(pending, new), Tail(batch))

\* lines 169-175: execute_values with page_size = batch_size is one statement
execute_values(table, batch) == InsertRows(table, <<>>, batch)

\* line 167: batch = data_tuples[i:i + batch_size], i counted from 0
BatchAt(tuples, i, size) ==
    SubSeq(tuples, i + 1, IF i + size < Len(tuples) THEN i + size ELSE Len(tuples))

\* lines 166-176 when nothing raises: every batch executed and committed
RECURSIVE LoadAll(_, _, _, _)
LoadAll(table, tuples, i, size) ==
    IF i >= Len(tuples) THEN table
    ELSE LET r == execute_values(table, BatchAt(tuples, i, size))
         IN  IF r.error # "none" THEN LoadAll(table, tuples, i + size, size)
             ELSE LoadAll(table \o r.rows, tuples, i + size, size)

\* --------------------------------------------------------- fieldmappings

\* field_names with one flag column named like another
field_names_repeated ==
    <<"WBANNO", "UTC_DATE", "UTC_TIME", "LST_DATE", "LST_TIME", "CRX_VN",
      "LONGITUDE", "LATITUDE", "T_CALC", "T_HR_AVG", "T_MAX", "T_MIN",
      "P_CALC", "SOLARAD", "SOLARAD_FLAG", "SOLARAD_MAX", "SOLARAD_FLAG",
      "SOLARAD_MIN", "SOLARAD_MIN_FLAG", "SUR_TEMP_TYPE", "SUR_TEMP",
      "SUR_TEMP_FLAG", "SUR_TEMP_MAX", "SUR_TEMP_MAX_FLAG", "SUR_TEMP_MIN",
      "SUR_TEMP_MIN_FLAG", "RH_HR_AVG", "RH_HR_AVG_FLAG", "SOIL_MOISTURE_5",
      "SOIL_MOISTURE_10", "SOIL_MOISTURE_20", "SOIL_MOISTURE_50",
      "SOIL_MOISTURE_100", "SOIL_TEMP_5", "SOIL_TEMP_10", "SOIL_TEMP_20",
      "SOIL_TEMP_50", "SOIL_TEMP_100">>

\* fieldmappings.field_names, lines 3-42
field_names ==
    <<"WBANNO", "UTC_DATE", "UTC_TIME", "LST_DATE", "LST_TIME", "CRX_VN",
      "LONGITUDE", "LATITUDE", "T_CALC", "T_HR_AVG", "T_MAX", "T_MIN",
      "P_CALC", "SOLARAD", "SOLARAD_FLAG", "SOLARAD_MAX", "SOLARAD_MAX_FLAG",
      "SOLARAD_MIN", "SOLARAD_MIN_FLAG", "SUR_TEMP_TYPE", "SUR_TEMP",
      "SUR_TEMP_FLAG", "SUR_TEMP_MAX", "SUR_TEMP_MAX_FLAG", "SUR_TEMP_MIN",
      "SUR_TEMP_MIN_FLAG", "RH_HR_AVG", "RH_HR_AVG_FLAG", "SOIL_MOISTURE_5",
      "SOIL_MOISTURE_10", "SOIL_MOISTURE_20", "SOIL_MOISTURE_50",
      "SOIL_MOISTURE_100", "SOIL_TEMP_5", "SOIL_TEMP_10", "SOIL_TEMP_20",
      "SOIL_TEMP_50", "SOIL_TEMP_100">>

\* the ranges with the 1-based start columns of the format description, not
\* turned into offsets
colspecs_one_based ==
    <<<<1, 5>>, <<7, 14>>, <<16, 19>>, <<21, 28>>, <<30, 33>>, <<35, 40>>,
      <<42, 48>>, <<50, 56>>, <<58, 64>>, <<66, 72>>, <<74, 80>>, <<82, 88>>,
      <<90, 96>>, <<98, 103>>, <<105, 105>>, <<107, 112>>, <<114, 114>>,
      <<116, 121>>, <<123, 123>>, <<125, 125>>, <<127, 133>>, <<135, 135>>,
      <<137, 143>>, <<145, 145>>, <<147, 153>>, <<155, 155>>, <<157, 161>>,
      <<163, 163>>, <<165, 171>>, <<173, 179>>, <<181, 187>>, <<189, 195>>,
      <<197, 203>>, <<205, 211>>, <<213, 219>>, <<221, 227>>, <<229, 235>>,
      <<237, 243>>>>

\* fieldmappings.colspecs, lines 44-83: (start, end) offsets, the end excluded
colspecs ==
    <<<<1 - 1, 5>>, <<7 - 1, 14>>, <<16 - 1, 19>>, <<21 - 1, 28>>,
      <<30 - 1, 33>>, <<35 - 1, 40>>, <<42 - 1, 48>>, <<50 - 1, 56>>,
      <<58 - 1, 64>>, <<66 - 1, 72>>, <<74 - 1, 80>>, <<82 - 1, 88>>,
      <<90 - 1, 96>>, <<98 - 1, 103>>, <<105 - 1, 105>>, <<107 - 1, 112>>,
      <<114 - 1, 114>>, <<116 - 1, 121>>, <<123 - 1, 123>>, <<125 - 1, 125>>,
      <<127 - 1, 133>>, <<135 - 1, 135>>, <<137 - 1, 143>>, <<145 - 1, 145>>,
      <<147 - 1, 153>>, <<155 - 1, 155>>, <<157 - 1, 161>>, <<163 - 1, 163>>,
      <<165 - 1, 171>>, <<173 - 1, 179>>, <<181 - 1, 187>>, <<189 - 1, 195>>,
      <<197 - 1, 203>>, <<205 - 1, 211>>, <<213 - 1, 219>>, <<221 - 1, 227>>,
      <<229 - 1, 235>>, <<237 - 1, 243>>>>

\* fieldmappings.col_types, lines 85-124: a dict, every column read as object
col_types ==
    [name \in
       {"WBANNO", "UTC_DATE", "UTC_TIME", "LST_DATE", "LST_TIME", "CRX_VN",
        "LONGITUDE", "LATITUDE", "T_CALC", "T_HR_AVG", "T_MAX", "T_MIN",
        "P_CALC", "SOLARAD", "SOLARAD_FLAG", "SOLARAD_MAX",
        "SOLARAD_MAX_FLAG", "SOLARAD_MIN", "SOLARAD_MIN_FLAG",
        "SUR_TEMP_TYPE", "SUR_TEMP", "SUR_TEMP_FLAG", "SUR_TEMP_MAX",
        "SUR_TEMP_MAX_FLAG", "SUR_TEMP_MIN", "SUR_TEMP_MIN_FLAG", "RH_HR_AVG",
        "RH_HR_AVG_FLAG", "SOIL_MOISTURE_5", "SOIL_MOISTURE_10",
        "SOIL_MOISTURE_20", "SOIL_MOISTURE_50", "SOIL_MOISTURE_100",
        "SOIL_TEMP_5", "SOIL_TEMP_10", "SOIL_TEMP_20", "SOIL_TEMP_50",
        "SOIL_TEMP_100"}
     |-> "object"]

\* ---------------------------------------------------------------- read_fwf

\* the width of a line: the end of the last range
LineWidth == colspecs[Len(colspecs)][2]

\* the texts pandas reads as a missing value (keep_default_na)
na_values ==
    {<<"-", "1", ".", "#", "I", "N", "D">>,
     <<"1", ".", "#", "Q", "N", "A", "N">>,
     <<"1", ".", "#", "I", "N", "D">>,
     <<"-", "1", ".", "#", "Q", "N", "A", "N">>,
     <<"#", "N", "/", "A", " ", "N", "/", "A">>,
     <<"#", "N", "/", "A">>,
     <<"N", "/", "A">>,
     <<"n", "/", "a">>,
     <<"N", "A">>,
     <<"<", "N", "A", ">">>,
     <<"#", "N", "A">>,
     <<"N", "U", "L", "L">>,
     <<"n", "u", "l", "l">>,
     <<"N", "a", "N">>,
     <<"-", "N", "a", "N">>,
     <<"n", "a", "n">>,
     <<"-", "n", "a", "n">>,
     <<"N", "o", "n", "e">>,
     <<>>}

\* FixedWidthReader: the field of range k of a line is line[start:end] with
\* the blanks around it stripped; a slice past the end of the line is short
\* or empty
FieldOf(line, k) ==
    LET from == colspecs[k][1]
        to == IF colspecs[k][2] < Len(line) THEN colspecs[k][2] ELSE Len(line)
    IN  strip(SubSeq(line, from + 1, to))

\* skip_blank_lines: a line whose fields are all empty is left out
IsBlankLine(line) == \A k \in 1..Len(colspecs) : FieldOf(line, k) = <<>>

\* the row of one line: a column for every name, text as it stands
\* (dtype object), NaN for a missing value
RowOf(line) ==
    [name \in Range(field_names) |->
        LET k == CHOOSE j \in 1..Len(field_names) : field_names[j] = name
            text == FieldOf(line, k)
        IN  IF text \in na_values THEN NaN ELSE Str(text)]

\* pd.read_fwf of lines 222-232 on the lines of a file: one row for every
\* line that is not blank.  A fixed-width line always yields one field per
\* range, so no line is a bad line for on_bad_lines to skip.
read_fwf(lines) ==
    LET kept == SelectSeq(lines, LAMBDA line : ~IsBlankLine(line))
    IN  [k \in 1..Len(kept) |-> RowOf(kept[k])]

\* the fields of a line of a data file that the pipeline does not read
OtherField(name) ==
    CASE name = "CRX_VN" -> <<"2", ".", "6", "2", "2">>
      [] name = "LONGITUDE" -> <<"-", "7", "5", ".", "9", "3">>
      [] name = "LATITUDE" -> <<"4", "0", ".", "0", "4">>
      [] name = "T_MAX" -> <<"2", "5", ".", "3">>
      [] name = "T_MIN" -> <<"2", "3", ".", "9">>
      [] name \in {"SOLARAD", "SOLARAD_MAX", "SOLARAD_MIN"} -> <<"3", "1", "2">>
      [] name = "SUR_TEMP_TYPE" -> <<"C">>
      [] name \in {"SUR_TEMP", "SUR_TEMP_MAX", "SUR_TEMP_MIN"} ->
            <<"2", "7", ".", "1">>
      [] name \in {"SOIL_MOISTURE_5", "SOIL_MOISTURE_10", "SOIL_MOISTURE_20",
                   "SOIL_MOISTURE_50", "SOIL_MOISTURE_100"} ->
            <<"0", ".", "3", "1", "2">>
      [] OTHER -> <<"0">>

\* the texts of the 38 fields of the line a raw row was read from
FieldsOf(row) ==
    [name \in Range(field_names) |->
        IF name \in DOMAIN row
        THEN IF row[name].t = "str" THEN row[name].s ELSE <<>>
        ELSE OtherField(name)]

\* the line of a data file: every field right-justified in its range, blanks
\* between the ranges
LineOf(fields) ==
    [p \in 1..LineWidth |->
        LET ks == {k \in 1..Len(colspecs) : colspecs[k][1] < p /\ p <= colspecs[k][2]}
        IN  IF ks = {} THEN " "
            ELSE LET k == CHOOSE j \in ks : TRUE
                     text == fields[field_names[k]]
                     pad == (colspecs[k][2] - colspecs[k][1]) - Len(text)
                     at == p - colspecs[k][1]
                 IN  IF at <= pad THEN " " ELSE text[at - pad]]

\* where a line of a file ends: nowhere (a blank line), after the UTC time,
\* after the local time, after the first soil temperature, or at its full
\* width
LineEnds == {0, colspecs[3][2], colspecs[5][2], colspecs[34][2], LineWidth}

\* the lines of a file: the line of a raw row whose pairs parse, whole or cut
\* short
Lines ==
    {SubSeq(LineOf(FieldsOf(row)), 1, n) :
        row \in {BaseRow, RowOtherZone, RowNext}, n \in LineEnds}

\* the files read_fwf can be given: up to MaxRows lines
Files == UNION {[1..n -> Lines] : n \in 0..MaxRows}

\* ------------------------------------------------------------------- state

VARIABLES
    pc,             \* where main / processdata / bulk_insert_optimized stands
    environ,        \* os.environ: the required variables that are set
    schema,         \* fieldmappings as deployed: consistent, or how it is not
    ddl,            \* what the last create_table_if_not_exists did, until
                    \* processdata starts
    global_vars,    \* the names load_env_vars has stored
    exit_codes,     \* the statuses sys.exit was called with, in order
    table_exists,   \* the sink has the soildata table
    sink,           \* the committed rows of soildata, in insertion order
    files,          \* glob.glob's result, as the file numbers 1..n
    file_idx,       \* the files the loop has finished
    batch_size,     \* bulk_insert_optimized's batch_size
    raw,            \* the frame read_fwf returned for the current file
    df,             \* the frame process_dataframe_optimized returned
    conn,           \* the loader's connection: "none", "open" or "lost"
    i,              \* the loop variable of line 166
    txn,            \* the rows the open transaction has inserted
    last_error,     \* the exception the except clause of line 183 caught
    total_records,  \* line 214
    summary,        \* what line 253 logged
    raised_by,      \* the call whose exception left main, or "none"
    conn_opened,    \* history: psycopg2.connect calls of this run
    files_read,     \* history: read_fwf calls of this run
    sink0,          \* history: the sink when the current load connected
    attempted,      \* history: the batch numbers executed in the current load
    failed,         \* history: the batch numbers whose except clause ran
    loaded,         \* history: <<utc, local>> of every record of a committed batch
    v_pc, v_in, v_clean, v_out,  \* the scalar functions applied to one value
    f_pc, f_date, f_time, f_out, \* formatdate applied to one pair
    d_pc, d_lines, d_df,         \* read_fwf applied to the lines of one file
    d_log,                       \* what process_dataframe_optimized logged
                                 \* about removed rows
    d_opt,                       \* what processsoildata_optimized.py makes of
                                 \* the same frame
    loaders                      \* two bulk_insert_optimized calls on one sink

run_vars == <<pc, environ, schema, ddl, global_vars, exit_codes, raised_by, conn_opened, files_read>>
sink_vars == <<table_exists, sink, loaded>>
file_vars == <<files, file_idx, batch_size, raw, df, total_records, summary>>
load_vars == <<conn, i, txn, last_error, sink0, attempted, failed>>
date_vars == <<f_pc, f_date, f_time, f_out>>
line_vars == <<d_pc, d_lines, d_df, d_log, d_opt>>
conc_vars == <<loaders>>
value_vars == <<v_pc, v_in, v_clean, v_out, date_vars, line_vars, conc_vars>>
vars == <<run_vars, sink_vars, file_vars, load_vars, value_vars>>

\* main, lines 333-339
env_vars_to_load ==
    {"SOIL_DATA_LOCATION", "SOIL_DATABASE", "SOIL_DATABASE_USER",
     "SOIL_DATABASE_PASSWORD", "SOIL_DATABASE_HOST"}

Terminal == {"completed", "exited", "raised"}

\* create_table_if_not_exists has not run
NoDdl == [statement |-> "none", txn |-> "none", cursor |-> "none"]

\* a process about to run main: nothing loaded, nothing open
Fresh(env) ==
    /\ pc = "main"
    /\ environ = env
    /\ ddl = NoDdl
    /\ global_vars = {}
    /\ exit_codes = <<>>
    /\ raised_by = "none"
    /\ conn_opened = 0
    /\ files_read = 0
    /\ files = <<>>
    /\ file_idx = 0
    /\ batch_size = 1
    /\ raw = <<>>
    /\ df = <<>>
    /\ total_records = 0
    /\ summary = [emitted |-> FALSE, total_files_processed |-> 0,
                  total_records_inserted |-> 0]
    /\ conn = "none"
    /\ i = 0
    /\ txn = <<>>
    /\ last_error = "none"
    /\ attempted = {}
    /\ failed = {}

DatesIdle == f_pc = "idle" /\ f_date = None /\ f_time = None /\ f_out = None

LinesIdle ==
    /\ d_pc = "idle" /\ d_lines = <<>> /\ d_df = <<>> /\ d_log = NoWarning
    /\ d_opt = NoResult

LoadersIdle == loaders = <<>>

ValuesIdle ==
    /\ v_pc = "idle" /\ v_in = None /\ v_clean = None /\ v_out = None
    /\ DatesIdle
    /\ LinesIdle
    /\ LoadersIdle

\* fieldmappings.py as it is: the three descriptions agree
Init ==
    /\ schema = "consistent"
    /\ \E env \in SUBSET env_vars_to_load : Fresh(env)
    /\ table_exists = FALSE
    /\ sink = <<>>
    /\ sink0 = <<>>
    /\ loaded = {}
    /\ ValuesIdle

\* ----------------------------------------------------------------- startup

\* load_env_vars leaving inside the loop's else branch: one sys.exit(1) for
\* every missing variable (the calls a patched sys.exit records)
load_env_vars_exit_each(env) ==
    LET missing_vars == env_vars_to_load \ env
    IN  [stored |-> env_vars_to_load \cap env,
         exits |-> [k \in 1..Cardinality(missing_vars) |-> 1]]

\* load_env_vars, lines 261-281: every variable that is set is stored, the
\* missing ones are collected, and one sys.exit(1) follows if any is missing
load_env_vars(env) ==
    LET missing_vars == env_vars_to_load \ env
    IN  [stored |-> env_vars_to_load \cap env,
         exits |-> IF missing_vars # {} THEN <<1>> ELSE <<>>]

LoadEnvVars ==
    /\ pc = "main"
    /\ LET r == load_env_vars(environ)
       IN  /\ global_vars' = r.stored
           /\ exit_codes' = exit_codes \o r.exits
           /\ pc' = IF r.exits # <<>> THEN "exited" ELSE "create_table"
    /\ UNCHANGED <<environ, schema, ddl, raised_by, conn_opened, files_read>>
    /\ UNCHANGED <<sink_vars, file_vars, load_vars, value_vars>>

\* create_soil_table_query, lines 285-298, executed: CREATE TABLE IF NOT
\* EXISTS makes an empty table where there is none and leaves an existing
\* table and its rows alone
create_soil_table_query(exists, rows) ==
    [exists |-> TRUE, rows |-> IF exists THEN rows ELSE <<>>]

\* create_table_if_not_exists, lines 309-319: the statement is executed and
\* committed, the cursor closed
CreateTableOk ==
    /\ pc = "create_table"
    /\ conn_opened' = conn_opened + 1
    /\ LET r == create_soil_table_query(table_exists, sink)
       IN  /\ table_exists' = r.exists
           /\ sink' = r.rows
    /\ ddl' = [statement |-> "ok", txn |-> "committed", cursor |-> "closed"]
    /\ pc' = "processdata"
    /\ UNCHANGED <<environ, schema, global_vars, exit_codes, raised_by, files_read>>
    /\ UNCHANGED <<loaded, file_vars, load_vars, value_vars>>

\* the except clause with no rollback and a raise: DuplicateTable leaves
\* the function through the outer handler
CreateTableDuplicateReraised ==
    /\ pc = "create_table"
    /\ conn_opened' = conn_opened + 1
    /\ table_exists' = TRUE
    /\ ddl' = [statement |-> "DuplicateTable", txn |-> "aborted", cursor |-> "open"]
    /\ pc' = "raised"
    /\ raised_by' = "create_table"
    /\ UNCHANGED <<environ, schema, global_vars, exit_codes, files_read>>
    /\ UNCHANGED <<sink, loaded, file_vars, load_vars, value_vars>>

\* lines 316-319: the statement raises DuplicateTable (another session made
\* the table meanwhile); the transaction is rolled back, the cursor closed,
\* and the function returns
CreateTableDuplicate ==
    /\ pc = "create_table"
    /\ conn_opened' = conn_opened + 1
    /\ table_exists' = TRUE
    /\ ddl' = [statement |-> "DuplicateTable", txn |-> "rolled_back",
               cursor |-> "closed"]
    /\ pc' = "processdata"
    /\ UNCHANGED <<environ, schema, global_vars, exit_codes, raised_by, files_read>>
    /\ UNCHANGED <<sink, loaded, file_vars, load_vars, value_vars>>

\* the outer handler with no raise: the error is logged, the function
\* returns and main goes on to processdata
CreateTableRaisesSwallowed ==
    /\ pc = "create_table"
    /\ \E connected \in BOOLEAN :
          /\ conn_opened' = IF connected THEN conn_opened + 1 ELSE conn_opened
          /\ ddl' = IF connected
                    THEN [statement |-> "error", txn |-> "rolled_back",
                          cursor |-> "open"]
                    ELSE NoDdl
    /\ pc' = "processdata"
    /\ UNCHANGED <<environ, schema, global_vars, exit_codes, raised_by, files_read>>
    /\ UNCHANGED <<sink_vars, file_vars, load_vars, value_vars>>

\* lines 320-327: connect raises, or the statement raises anything else (the
\* with block rolls back, line 319 is not reached): the error is logged and
\* raised again, and leaves main
CreateTableRaises ==
    /\ pc = "create_table"
    /\ \E connected \in BOOLEAN :
          /\ conn_opened' = IF connected THEN conn_opened + 1 ELSE conn_opened
          /\ ddl' = IF connected
                    THEN [statement |-> "error", txn |-> "rolled_back",
                          cursor |-> "open"]
                    ELSE NoDdl
    /\ pc' = "raised"
    /\ raised_by' = "create_table"
    /\ UNCHANGED <<environ, schema, global_vars, exit_codes, files_read>>
    /\ UNCHANGED <<sink_vars, file_vars, load_vars, value_vars>>

\* ------------------------------------------------------------- processdata

NoSummary ==
    [emitted |-> FALSE, total_files_processed |-> 0, total_records_inserted |-> 0]

\* lines 196-214: the files the pattern matches; total_records = 0.  What
\* create_table_if_not_exists did is read no more: the model forgets it.
Glob ==
    /\ pc = "processdata"
    /\ \E n \in 0..MaxFiles : files' = [k \in 1..n |-> k]
    /\ file_idx' = 0
    /\ total_records' = 0
    /\ ddl' = NoDdl
    /\ pc' = "for_file"
    /\ UNCHANGED <<batch_size, raw, df, summary>>
    /\ UNCHANGED <<environ, schema, global_vars, exit_codes, raised_by, conn_opened, files_read>>
    /\ UNCHANGED <<sink_vars, load_vars, value_vars>>

\* lines 216-234: the next file is read into a frame.  read_fwf raises
\* ValueError when names and colspecs differ in length; a key of col_types
\* that names no column is ignored, and a column with no key is read with
\* an inferred type (the frames of the model stay the same).
ReadFwf ==
    /\ pc = "for_file"
    /\ file_idx < Len(files)
    /\ schema # "lengths_differ"
    /\ \E frame \in Frames : raw' = frame
    /\ files_read' = files_read + 1
    /\ pc' = "process_dataframe"
    /\ UNCHANGED <<files, file_idx, batch_size, df, total_records, summary>>
    /\ UNCHANGED <<environ, schema, ddl, global_vars, exit_codes, raised_by, conn_opened>>
    /\ UNCHANGED <<sink_vars, load_vars, value_vars>>

\* line 222: read_fwf raises (the file cannot be opened or decoded); nothing
\* in processdata or main catches it
ReadFwfRaises ==
    /\ pc = "for_file"
    /\ file_idx < Len(files)
    /\ files_read' = files_read + 1
    /\ pc' = "raised"
    /\ raised_by' = "read_fwf"
    /\ UNCHANGED <<environ, schema, ddl, global_vars, exit_codes, conn_opened>>
    /\ UNCHANGED <<sink_vars, file_vars, load_vars, value_vars>>

\* the call of bulk_insert_optimized indented out of the loop: every file
\* but the last is read and normalized, and the loop goes to the next file
ProcessDataframeNextFile ==
    /\ pc = "process_dataframe"
    /\ df' = process_dataframe_optimized(raw)
    /\ IF file_idx + 1 < Len(files)
       THEN /\ file_idx' = file_idx + 1
            /\ pc' = "for_file"
       ELSE /\ file_idx' = file_idx
            /\ pc' = "connect"
    /\ UNCHANGED <<files, batch_size, raw, total_records, summary>>
    /\ UNCHANGED <<environ, schema, ddl, global_vars, exit_codes, raised_by, conn_opened, files_read>>
    /\ UNCHANGED <<sink_vars, load_vars, value_vars>>

\* line 237: df is rebound to the frame the function returns; an exception
\* of the function (the division of line 117) would leave main
ProcessDataframe ==
    /\ pc = "process_dataframe"
    /\ \E out \in {process_dataframe_optimized(raw)} :
          IF removal_warning(Len(raw), Len(out)).raised = "none"
          THEN /\ df' = out
               /\ pc' = "connect"
               /\ UNCHANGED raised_by
          ELSE /\ df' = df
               /\ pc' = "raised"
               /\ raised_by' = "process_dataframe"
    /\ UNCHANGED <<files, file_idx, batch_size, raw, total_records, summary>>
    /\ UNCHANGED <<environ, schema, ddl, global_vars, exit_codes, conn_opened, files_read>>
    /\ UNCHANGED <<sink_vars, load_vars, value_vars>>

\* ------------------------------------------------- bulk_insert_optimized

\* the batch of the current pass of the loop of line 166
batch == BatchAt(data_tuples(df), i, batch_size)

\* i//batch_size + 1, lines 179 and 186
batch_number == i \div batch_size + 1

\* the rows of df that make up the current batch
BatchRecords ==
    {df[k] : k \in {j \in 1..Len(df) : i < j /\ j <= i + batch_size}}

\* lines 144-155: bulk_insert_optimized is called with its batch size (line
\* 240 passes 1000; the model draws it) and opens the connection of this
\* file's load.  Line 237 has rebound df, so the frame read_fwf returned is
\* gone: the model forgets it here.
Connect ==
    /\ pc = "connect"
    /\ \E b \in 1..MaxBatchSize : batch_size' = b
    /\ raw' = <<>>
    /\ conn' = "open"
    /\ conn_opened' = conn_opened + 1
    /\ i' = 0
    /\ txn' = <<>>
    /\ last_error' = "none"
    /\ sink0' = sink
    /\ attempted' = {}
    /\ failed' = {}
    /\ pc' = "for_batch"
    /\ UNCHANGED <<environ, schema, ddl, global_vars, exit_codes, raised_by, files_read>>
    /\ UNCHANGED <<files, file_idx, df, total_records, summary>>
    /\ UNCHANGED <<sink_vars, value_vars>>

\* line 154: psycopg2.connect raises; nothing in bulk_insert_optimized,
\* processdata or main catches it
ConnectRaises ==
    /\ pc = "connect"
    /\ raw' = <<>>
    /\ pc' = "raised"
    /\ raised_by' = "connect"
    /\ UNCHANGED <<environ, schema, ddl, global_vars, exit_codes, conn_opened, files_read>>
    /\ UNCHANGED <<files, file_idx, batch_size, df, total_records, summary>>
    /\ UNCHANGED <<sink_vars, load_vars, value_vars>>

\* lines 166-175: the statement runs on the next batch; an error of the
\* statement itself goes to the except clause
ExecuteValues ==
    /\ pc = "for_batch"
    /\ i < Len(df)
    /\ attempted' = attempted \cup {batch_number}
    /\ LET r == execute_values(sink, batch)
       IN  IF r.error = "none"
           THEN /\ txn' = r.rows
                /\ pc' = "commit"
                /\ UNCHANGED last_error
           ELSE /\ txn' = <<>>
                /\ last_error' = r.error
                /\ pc' = "except"
    /\ UNCHANGED <<conn, i, sink0, failed>>
    /\ UNCHANGED <<environ, schema, ddl, global_vars, exit_codes, raised_by, conn_opened, files_read>>
    /\ UNCHANGED <<sink_vars, file_vars, value_vars>>

\* lines 169 and 183: the sink makes execute_values raise: an error that
\* leaves the connection usable (DatabaseError) or the loss of the
\* connection (OperationalError)
ExecuteValuesRaises ==
    /\ pc = "for_batch"
    /\ i < Len(df)
    /\ attempted' = attempted \cup {batch_number}
    /\ \E err \in {"DatabaseError", "OperationalError"} :
          /\ last_error' = err
          /\ conn' = IF err = "OperationalError" THEN "lost" ELSE conn
    /\ txn' = <<>>
    /\ pc' = "except"
    /\ UNCHANGED <<i, sink0, failed>>
    /\ UNCHANGED <<environ, schema, ddl, global_vars, exit_codes, raised_by, conn_opened, files_read>>
    /\ UNCHANGED <<sink_vars, file_vars, value_vars>>

\* line 176: the batch is committed, and the loop goes on
Commit ==
    /\ pc = "commit"
    /\ sink' = sink \o txn
    /\ loaded' = loaded \cup
          {<<r["UTC_DATETIME"], r["LOCAL_DATETIME"]>> : r \in BatchRecords}
    /\ txn' = <<>>
    /\ i' = i + batch_size
    /\ pc' = "for_batch"
    /\ UNCHANGED <<conn, last_error, sink0, attempted, failed>>
    /\ UNCHANGED <<environ, schema, ddl, global_vars, exit_codes, raised_by, conn_opened, files_read>>
    /\ UNCHANGED <<table_exists, file_vars, value_vars>>

\* lines 176 and 183: commit raises
CommitRaises ==
    /\ pc = "commit"
    /\ \E err \in {"DatabaseError", "OperationalError"} :
          /\ last_error' = err
          /\ conn' = IF err = "OperationalError" THEN "lost" ELSE conn
    /\ pc' = "except"
    /\ UNCHANGED <<i, txn, sink0, attempted, failed>>
    /\ UNCHANGED <<environ, schema, ddl, global_vars, exit_codes, raised_by, conn_opened, files_read>>
    /\ UNCHANGED <<sink_vars, file_vars, value_vars>>

\* one transaction for the whole file: the rollback of a failed batch undoes
\* the batches committed before it
RollbackWholeFile ==
    /\ pc = "except"
    /\ conn = "open"
    /\ txn' = <<>>
    /\ sink' = sink0
    /\ failed' = failed \cup {batch_number}
    /\ i' = i + batch_size
    /\ pc' = "for_batch"
    /\ UNCHANGED <<conn, last_error, sink0, attempted>>
    /\ UNCHANGED <<environ, schema, ddl, global_vars, exit_codes, raised_by, conn_opened, files_read>>
    /\ UNCHANGED <<table_exists, loaded, file_vars, value_vars>>

\* lines 183-190: the error is logged and the transaction rolled back; the
\* loop goes on with the next batch
Rollback ==
    /\ pc = "except"
    /\ conn = "open"
    /\ txn' = <<>>
    /\ failed' = failed \cup {batch_number}
    /\ i' = i + batch_size
    /\ pc' = "for_batch"
    /\ UNCHANGED <<conn, last_error, sink0, attempted>>
    /\ UNCHANGED <<environ, schema, ddl, global_vars, exit_codes, raised_by, conn_opened, files_read>>
    /\ UNCHANGED <<sink_vars, file_vars, value_vars>>

\* line 190 on a lost connection: conn.rollback() raises inside the except
\* clause, and the exception leaves bulk_insert_optimized, processdata and
\* main; the sink drops the open transaction
RollbackRaises ==
    /\ pc = "except"
    /\ conn = "lost"
    /\ txn' = <<>>
    /\ failed' = failed \cup {batch_number}
    /\ pc' = "raised"
    /\ raised_by' = "rollback"
    /\ UNCHANGED <<conn, i, last_error, sink0, attempted>>
    /\ UNCHANGED <<environ, schema, ddl, global_vars, exit_codes, conn_opened, files_read>>
    /\ UNCHANGED <<sink_vars, file_vars, value_vars>>

\* line 192 and the end of the with block: the loop is over
CloseCursor ==
    /\ pc = "for_batch"
    /\ i >= Len(df)
    /\ conn' = "none"
    /\ pc' = "loaded"
    /\ UNCHANGED <<i, txn, last_error, sink0, attempted, failed>>
    /\ UNCHANGED <<environ, schema, ddl, global_vars, exit_codes, raised_by, conn_opened, files_read>>
    /\ UNCHANGED <<sink_vars, file_vars, value_vars>>

\* lines 242-251: the file's records are added to the total.  The locals of
\* bulk_insert_optimized are gone, and raw and df are rebound before they are
\* read again: the model forgets them here.
FileEnd ==
    /\ pc = "loaded"
    /\ total_records' = total_records + Len(df)
    /\ file_idx' = file_idx + 1
    /\ raw' = <<>>
    /\ df' = <<>>
    /\ batch_size' = 1
    /\ i' = 0
    /\ last_error' = "none"
    /\ sink0' = sink
    /\ attempted' = {}
    /\ failed' = {}
    /\ pc' = "for_file"
    /\ UNCHANGED <<files, summary, conn, txn>>
    /\ UNCHANGED <<environ, schema, ddl, global_vars, exit_codes, raised_by, conn_opened, files_read>>
    /\ UNCHANGED <<sink_vars, value_vars>>

\* lines 253-258 and 344: the summary is logged and main returns
Summary ==
    /\ pc = "for_file"
    /\ file_idx = Len(files)
    /\ summary' = [emitted |-> TRUE, total_files_processed |-> Len(files),
                   total_records_inserted |-> total_records]
    /\ pc' = "completed"
    /\ UNCHANGED <<files, file_idx, batch_size, raw, df, total_records>>
    /\ UNCHANGED <<environ, schema, ddl, global_vars, exit_codes, raised_by, conn_opened, files_read>>
    /\ UNCHANGED <<sink_vars, load_vars, value_vars>>

\* the program is started again, in the same environment, on the same sink
Restart ==
    /\ pc \in Terminal
    /\ pc' = "main"
    /\ UNCHANGED <<environ, schema>>
    /\ ddl' = NoDdl
    /\ global_vars' = {}
    /\ exit_codes' = <<>>
    /\ raised_by' = "none"
    /\ conn_opened' = 0
    /\ files_read' = 0
    /\ files' = <<>>
    /\ file_idx' = 0
    /\ batch_size' = 1
    /\ raw' = <<>>
    /\ df' = <<>>
    /\ total_records' = 0
    /\ summary' = NoSummary
    /\ conn' = "none"
    /\ i' = 0
    /\ txn' = <<>>
    /\ last_error' = "none"
    /\ sink0' = sink
    /\ attempted' = {}
    /\ failed' = {}
    /\ UNCHANGED <<sink_vars, value_vars>>

Next ==
    \/ LoadEnvVars
    \/ CreateTableOk
    \/ CreateTableDuplicate
    \/ CreateTableRaises
    \/ Glob
    \/ ReadFwf
    \/ ReadFwfRaises
    \/ ProcessDataframe
    \/ Connect
    \/ ConnectRaises
    \/ ExecuteValues
    \/ ExecuteValuesRaises
    \/ Commit
    \/ CommitRaises
    \/ Rollback
    \/ RollbackRaises
    \/ CloseCursor
    \/ FileEnd
    \/ Summary
    \/ Restart

Spec == Init /\ [][Next]_vars

\* ------------------------------------------------ an inconsistent registry
\* main started with a fieldmappings module whose descriptions do not agree:
\* names and colspecs of different lengths, or col_types with other keys
\* than the names

InconsistentSchemas == {"lengths_differ", "names_differ"}

InitSchema ==
    /\ schema \in InconsistentSchemas
    /\ \E env \in SUBSET env_vars_to_load : Fresh(env)
    /\ table_exists = FALSE
    /\ sink = <<>>
    /\ sink0 = <<>>
    /\ loaded = {}
    /\ ValuesIdle

SpecSchema == InitSchema /\ [][Next]_vars

\* ------------------------------------------------- the scalar functions
\* removevaluesnotrecorded and converttofarenheit, lines 360-380, applied to
\* one value: to the input itself, or one after the other

ValueAlphabet == {"-", ".", "9", "0", " ", "a"}

\* every text of up to MaxStrLen characters of the alphabet
ShortTexts == UNION {[1..n -> ValueAlphabet] : n \in 0..MaxStrLen}

\* the texts of the data files and of the tests
NamedTexts ==
    {<<"-", "9", "9", ".", "0", "0", "0">>, <<"-", "9", "9", "9", "9", ".", "0">>,
     <<"-", "9", "9", "9", "9">>, <<"-", "9", "9">>, <<" ", "-", "9", "9", " ">>,
     <<"-", "9", "9", ".", "0", "0", "1">>, <<"-", "9", "9", "9">>,
     <<"1", "5", ".", "5">>, <<"0", ".", "0">>, <<"-", "4", "0">>,
     <<"1", "0", "0">>, <<"a", "b", "c">>, <<"n", "a", "n">>}

\* the numbers of the tests, in units of 1/Scale
NamedNumbers ==
    {0, 255 * 1000, -105 * 1000, -99 * Scale, -9999 * Scale, 100 * Scale,
     -40 * Scale, 25 * Scale, 155 * 1000, -989 * 1000, -100 * Scale, 37 * Scale}

ValueInputs ==
    {Str(s) : s \in ShortTexts \cup NamedTexts}
        \cup {Num(n) : n \in NamedNumbers} \cup {NaN, None}

InitValues ==
    /\ schema = "consistent"
    /\ Fresh(env_vars_to_load)
    /\ table_exists = FALSE
    /\ sink = <<>>
    /\ sink0 = <<>>
    /\ loaded = {}
    /\ v_pc = "input"
    /\ v_in \in ValueInputs
    /\ v_clean = None
    /\ v_out = None
    /\ DatesIdle
    /\ LinesIdle
    /\ LoadersIdle

\* removevaluesnotrecorded(v_in)
RemoveValuesNotRecorded ==
    /\ v_pc = "input"
    /\ v_clean' = removevaluesnotrecorded(v_in)
    /\ v_pc' = "cleaned"
    /\ UNCHANGED <<v_in, v_out>>
    /\ UNCHANGED <<run_vars, sink_vars, file_vars, load_vars, date_vars, line_vars, conc_vars>>

\* converttofarenheit(removevaluesnotrecorded(v_in))
ConvertCleaned ==
    /\ v_pc = "cleaned"
    /\ v_out' = converttofarenheit(v_clean)
    /\ v_pc' = "converted"
    /\ UNCHANGED <<v_in, v_clean>>
    /\ UNCHANGED <<run_vars, sink_vars, file_vars, load_vars, date_vars, line_vars, conc_vars>>

\* converttofarenheit(v_in)
ConvertDirect ==
    /\ v_pc = "input"
    /\ v_out' = converttofarenheit(v_in)
    /\ v_pc' = "direct"
    /\ UNCHANGED <<v_in, v_clean>>
    /\ UNCHANGED <<run_vars, sink_vars, file_vars, load_vars, date_vars, line_vars, conc_vars>>

NextValues ==
    \/ RemoveValuesNotRecorded
    \/ ConvertCleaned
    \/ ConvertDirect

SpecValues == InitValues /\ [][NextValues]_vars

\* ------------------------------------------------------------- formatdate
\* formatdate, lines 349-357, applied to one (date, time) pair, twice

\* the dates of the tests, and dates that are no calendar date, too short,
\* padded, or not all digits
NamedDates ==
    {<<"2", "0", "2", "2", "0", "3", "1", "5">>,
     <<"2", "0", "2", "2", "0", "1", "0", "1">>,
     <<"2", "0", "2", "2", "1", "2", "3", "1">>,
     <<"2", "0", "2", "4", "0", "2", "2", "9">>,
     <<"2", "0", "2", "3", "0", "2", "2", "9">>,
     <<"2", "0", "2", "2", "1", "3", "1", "5">>,
     <<"2", "0", "2", "2", "0", "4", "3", "1">>,
     <<"2", "0", "2", "2", "0", "3", "0", "0">>,
     <<"1", "6", "0", "0", "0", "1", "0", "1">>,
     <<" ", "2", "0", "2", "2", "0", "3", "1", "5", " ">>,
     <<"2", "0", "2", "2", "-", "0", "3", "-", "1", "5">>,
     <<"2", "0", "2", "2", "0", "3", " ", "5">>,
     <<"2", "0", "2", "2", "0", "3", "1", "a">>,
     <<"n", "a", "n">>, <<>>}

\* the times of the tests, and times out of range, too long, or not all digits
NamedTimes ==
    {<<"1", "4", "3", "0">>, <<"0", "0", "0", "0">>, <<"2", "3", "5", "9">>,
     <<"0", "9", "3", "0">>, <<"9", "4", "5">>, <<"2", "4", "0", "0">>,
     <<"0", "9", "6", "0">>, <<"1", "2", "3", "4", "5">>,
     <<"1", "4", ":", "3", "0">>, <<" ", "9", "3", "0", " ">>,
     <<"-", "9", "3", "0">>, <<"n", "a", "n">>}

TimeAlphabet == {"0", "2", "6", "9", " ", "a"}

\* every time text of up to MaxStrLen characters of the alphabet
ShortTimes == UNION {[1..n -> TimeAlphabet] : n \in 0..MaxStrLen}

DateInputs == {Str(s) : s \in NamedDates} \cup {NaN, None}

TimeInputs == {Str(s) : s \in NamedTimes \cup ShortTimes} \cup {NaN, None}

InitDates ==
    /\ schema = "consistent"
    /\ Fresh(env_vars_to_load)
    /\ table_exists = FALSE
    /\ sink = <<>>
    /\ sink0 = <<>>
    /\ loaded = {}
    /\ v_pc = "idle" /\ v_in = None /\ v_clean = None /\ v_out = None
    /\ f_pc = "input"
    /\ f_date \in DateInputs
    /\ f_time \in TimeInputs
    /\ f_out = None
    /\ LinesIdle
    /\ LoadersIdle

\* formatdate(f_date, f_time)
FormatDate ==
    /\ f_pc = "input"
    /\ f_out' = formatdate(f_date, f_time)
    /\ f_pc' = "formatted"
    /\ UNCHANGED <<f_date, f_time>>
    /\ UNCHANGED <<run_vars, sink_vars, file_vars, load_vars>>
    /\ UNCHANGED <<v_pc, v_in, v_clean, v_out, line_vars, conc_vars>>

\* formatdate(f_date, f_time), called once more
FormatDateAgain ==
    /\ f_pc = "formatted"
    /\ f_out' = formatdate(f_date, f_time)
    /\ f_pc' = "again"
    /\ UNCHANGED <<f_date, f_time>>
    /\ UNCHANGED <<run_vars, sink_vars, file_vars, load_vars>>
    /\ UNCHANGED <<v_pc, v_in, v_clean, v_out, line_vars, conc_vars>>

NextDates ==
    \/ FormatDate
    \/ FormatDateAgain

SpecDates == InitDates /\ [][NextDates]_vars

\* ---------------------------------------------------------------- read_fwf
\* pd.read_fwf, lines 222-232, applied to the lines of one file, and the
\* frame it returns handed to process_dataframe_optimized, line 237

InitLines ==
    /\ schema = "consistent"
    /\ Fresh(env_vars_to_load)
    /\ table_exists = FALSE
    /\ sink = <<>>
    /\ sink0 = <<>>
    /\ loaded = {}
    /\ v_pc = "idle" /\ v_in = None /\ v_clean = None /\ v_out = None
    /\ DatesIdle
    /\ LoadersIdle
    /\ d_pc = "file"
    /\ d_lines \in Files
    /\ d_df = <<>>
    /\ d_log = NoWarning
    /\ d_opt = NoResult

\* df = pd.read_fwf(f, ...)
ReadFwfLines ==
    /\ d_pc = "file"
    /\ d_df' = read_fwf(d_lines)
    /\ d_pc' = "loaded"
    /\ UNCHANGED <<d_lines, d_log, d_opt>>
    /\ UNCHANGED <<run_vars, sink_vars, file_vars, load_vars>>
    /\ UNCHANGED <<v_pc, v_in, v_clean, v_out, date_vars, conc_vars>>

\* df = process_dataframe_optimized(df)
ProcessLines ==
    /\ d_pc = "loaded"
    /\ d_df' = process_dataframe_optimized(d_df)
    /\ d_log' = removal_warning(Len(d_df), Len(d_df'))
    /\ d_opt' = optimized_process_dataframe_optimized(d_df)
    /\ d_pc' = "processed"
    /\ UNCHANGED d_lines
    /\ UNCHANGED <<run_vars, sink_vars, file_vars, load_vars>>
    /\ UNCHANGED <<v_pc, v_in, v_clean, v_out, date_vars, conc_vars>>

NextLines ==
    \/ ReadFwfLines
    \/ ProcessLines

SpecLines == InitLines /\ [][NextLines]_vars

\* ----------------------------------------------------------------- pipeline
\* One file through processdata's loop body, lines 222-240: read_fwf,
\* process_dataframe_optimized, and bulk_insert_optimized on a sink that
\* raises nothing.

\* the lines of the files of the end-to-end scenario
PipelineLines ==
    {LineOf(FieldsOf(row)) :
        row \in {BaseRow, RowSentinels, RowSentinelsNext, RowNext}}

PipelineFiles == UNION {[1..n -> PipelineLines] : n \in 0..MaxRows}

InitPipeline ==
    /\ schema = "consistent"
    /\ pc = "main" /\ environ = env_vars_to_load /\ ddl = NoDdl
    /\ global_vars = {} /\ exit_codes = <<>> /\ raised_by = "none"
    /\ conn_opened = 0 /\ files_read = 0
    /\ files = <<>> /\ file_idx = 0 /\ raw = <<>> /\ df = <<>>
    /\ total_records = 0 /\ summary = NoSummary
    /\ conn = "none" /\ i = 0 /\ txn = <<>> /\ last_error = "none"
    /\ attempted = {} /\ failed = {}
    /\ table_exists = TRUE
    /\ sink = <<>>
    /\ sink0 = <<>>
    /\ loaded = {}
    /\ v_pc = "idle" /\ v_in = None /\ v_clean = None /\ v_out = None
    /\ DatesIdle
    /\ LoadersIdle
    /\ \E b \in 1..MaxBatchSize : batch_size = b
    /\ d_pc = "file"
    /\ d_lines \in PipelineFiles
    /\ d_df = <<>>
    /\ d_log = NoWarning
    /\ d_opt = NoResult

\* bulk_insert_optimized(df, connection_string, ...), line 240: every batch
\* executed and committed
InsertLines ==
    /\ d_pc = "processed"
    /\ sink' = LoadAll(sink, data_tuples(d_df), 0, batch_size)
    /\ d_pc' = "inserted"
    /\ UNCHANGED <<d_lines, d_df, d_log, d_opt>>
    /\ UNCHANGED <<run_vars, table_exists, loaded, file_vars, load_vars>>
    /\ UNCHANGED <<v_pc, v_in, v_clean, v_out, date_vars, conc_vars>>

NextPipeline ==
    \/ ReadFwfLines
    \/ ProcessLines
    \/ InsertLines

SpecPipeline == InitPipeline /\ [][NextPipeline]_vars

\* ------------------------------------------------------- concurrent loaders
\* Two processes, each inside bulk_insert_optimized (lines 154-192) with its
\* own connection and frame, on one soildata table.  A statement inserts the
\* rows of its batch one after the other.  In PostgreSQL a row whose key an
\* open transaction of another session has inserted makes the statement
\* wait for that transaction to end; two statements that wait for each other
\* are a deadlock, which the server ends by failing one of them (psycopg2
\* raises DeadlockDetected).  The sink raises nothing else here.

Procs == {1, 2}

Other(p) == 3 - p

\* the frames the two processes load: rows whose pairs parse
LoaderFrames == UNION {[1..n -> {BaseRow, RowOtherZone, RowNext}] : n \in 0..MaxRows}

\* line 152 of a call about to connect
LoaderAt(frame) ==
    [pc |-> "for_batch",
     tuples |-> data_tuples(process_dataframe_optimized(frame)),
     i |-> 0, pos |-> 0, txn |-> <<>>, last_error |-> "none", failed |-> {}]

InitLoaders ==
    /\ schema = "consistent"
    /\ pc = "main" /\ environ = env_vars_to_load /\ ddl = NoDdl
    /\ global_vars = {} /\ exit_codes = <<>> /\ raised_by = "none"
    /\ conn_opened = 0 /\ files_read = 0
    /\ files = <<>> /\ file_idx = 0 /\ raw = <<>> /\ df = <<>>
    /\ total_records = 0 /\ summary = NoSummary
    /\ conn = "none" /\ i = 0 /\ txn = <<>> /\ last_error = "none"
    /\ attempted = {} /\ failed = {}
    /\ table_exists = TRUE
    /\ sink = <<>>
    /\ sink0 = <<>>
    /\ loaded = {}
    /\ v_pc = "idle" /\ v_in = None /\ v_clean = None /\ v_out = None
    /\ DatesIdle
    /\ LinesIdle
    /\ \E b \in 1..MaxBatchSize : batch_size = b
    /\ \E f \in LoaderFrames : \E g \in LoaderFrames :
          loaders = <<LoaderAt(f), LoaderAt(g)>>

\* line 167: the batch a process is on
LoaderBatch(l) == BatchAt(l.tuples, l.i, batch_size)

\* the row the statement of a process inserts next
LoaderRow(l) == ToRow(LoaderBatch(l)[l.pos + 1])

\* the statement of p has a row to insert whose key the open transaction of
\* the other process has inserted: it waits
Waits(p) ==
    LET l == loaders[p]
    IN  /\ l.pc = "execute"
        /\ l.pos < Len(LoaderBatch(l))
        /\ LoaderRow(l)["time"] \in Keys(loaders[Other(p)].txn)

\* a process leaves its step with its variables changed; nothing else moves
LoaderStep(p, l) ==
    /\ loaders' = [loaders EXCEPT ![p] = l]
    /\ UNCHANGED <<run_vars, table_exists, loaded, file_vars, load_vars>>
    /\ UNCHANGED <<v_pc, v_in, v_clean, v_out, date_vars, line_vars>>

\* lines 166-169: the statement of the next batch starts
LoaderExecute(p) ==
    LET l == loaders[p]
    IN  /\ l.pc = "for_batch"
        /\ l.i < Len(l.tuples)
        /\ LoaderStep(p, [l EXCEPT !.pc = "execute", !.pos = 0, !.txn = <<>>])
        /\ UNCHANGED sink

\* the statement inserts its next row, or skips it when its key is taken by
\* a committed row or by a row of its own transaction
LoaderInsertRow(p) ==
    LET l == loaders[p]
    IN  /\ l.pc = "execute"
        /\ l.pos < Len(LoaderBatch(l))
        /\ ~Waits(p)
        /\ LET new == LoaderRow(l)
               r == IF new["time"] \in Keys(sink) \cup Keys(l.txn)
                    THEN on_conflict(l.txn, new)
                    ELSE [error |-> "none", rows |-> Append(l.txn, new)]
           IN  IF r.error = "none"
               THEN LoaderStep(p, [l EXCEPT !.txn = r.rows, !.pos = l.pos + 1])
               ELSE LoaderStep(p, [l EXCEPT !.txn = <<>>, !.pc = "except",
                                            !.last_error = r.error])
        /\ UNCHANGED sink

\* both statements wait for each other: the server fails the statement of p
\* and ends its transaction
LoaderDeadlock(p) ==
    LET l == loaders[p]
    IN  /\ Waits(p)
        /\ Waits(Other(p))
        /\ LoaderStep(p, [l EXCEPT !.txn = <<>>, !.pc = "except",
                                   !.last_error = "DeadlockDetected"])
        /\ UNCHANGED sink

\* line 176: the statement is over and the batch is committed
LoaderCommit(p) ==
    LET l == loaders[p]
    IN  /\ l.pc = "execute"
        /\ l.pos = Len(LoaderBatch(l))
        /\ sink' = sink \o l.txn
        /\ LoaderStep(p, [l EXCEPT !.txn = <<>>, !.pc = "for_batch",
                                   !.i = l.i + batch_size])

\* lines 183-190: the except clause
LoaderRollback(p) ==
    LET l == loaders[p]
    IN  /\ l.pc = "except"
        /\ LoaderStep(p, [l EXCEPT !.pc = "for_batch", !.i = l.i + batch_size,
                                   !.failed = l.failed \cup {l.i \div batch_size + 1}])
        /\ UNCHANGED sink

\* line 192
LoaderClose(p) ==
    LET l == loaders[p]
    IN  /\ l.pc = "for_batch"
        /\ l.i >= Len(l.tuples)
        /\ LoaderStep(p, [l EXCEPT !.pc = "closed"])
        /\ UNCHANGED sink

NextLoaders ==
    \/ \E p \in Procs : LoaderExecute(p)
    \/ \E p \in Procs : LoaderInsertRow(p)
    \/ \E p \in Procs : LoaderDeadlock(p)
    \/ \E p \in Procs : LoaderCommit(p)
    \/ \E p \in Procs : LoaderRollback(p)
    \/ \E p \in Procs : LoaderClose(p)

SpecLoaders == InitLoaders /\ [][NextLoaders]_vars

\* -------------------------------------------------------------- properties

\* C1 (idempotence of loading): when bulk_insert_optimized has loaded a frame
\* and no batch failed, the sink is what the batches, executed and committed
\* in order, make of the sink the load started from; it has one row per
\* timestamp key and a row for every record's key; loading the same frame
\* once more would leave it exactly as it is; and a load whose keys were all
\* present when it started has added and changed no row.
C1_LoadIdempotent ==
    (pc = "loaded" /\ failed = {}) =>
        LET tuples == data_tuples(df)
        IN  /\ sink = LoadAll(sink0, tuples, 0, batch_size)
            /\ LoadAll(sink, tuples, 0, batch_size) = sink
            /\ Cardinality(Keys(sink)) = Len(sink)
            /\ \A k \in 1..Len(tuples) : tuples[k][1] \in Keys(sink)
            /\ (\A k \in 1..Len(tuples) : tuples[k][1] \in Keys(sink0))
                  => sink = sink0

\* a frame of two records loaded a second time: its rows were in the sink
\* when the load started, and the sink is the same after it
C1_Witness ==
    /\ pc = "loaded"
    /\ failed = {}
    /\ Len(df) = 2
    /\ \A k \in 1..Len(df) :
          \E j \in 1..Len(sink0) : sink0[j] = ToRow(data_tuples(df)[k])
    /\ sink = sink0

\* the row the first tuple of the current batch with this key becomes
C2_FirstInBatch(key) ==
    LET j == CHOOSE j \in 1..Len(batch) :
                 /\ batch[j][1] = key
                 /\ \A h \in 1..(j - 1) : batch[h][1] # key
    IN  ToRow(batch[j])

\* C2 (first write wins): no step changes or removes a row of the sink; a
\* row a step adds is the first record with that key in the batch being
\* committed; the sink never has two rows with one key; and a write on a key
\* that is taken never fails its statement with a unique violation.
C2_FirstWriteWins ==
    [][/\ Len(sink') >= Len(sink)
       /\ SubSeq(sink', 1, Len(sink)) = sink
       /\ \A j \in (Len(sink) + 1)..Len(sink') :
             sink'[j] = C2_FirstInBatch(sink'[j]["time"])
       /\ Cardinality(Keys(sink')) = Len(sink')
       /\ last_error' # "UniqueViolation"]_vars

\* a load without a failed batch that wrote, on a key already taken, values
\* other than the stored ones
C2_Witness ==
    /\ pc = "loaded"
    /\ failed = {}
    /\ \E k \in 1..Len(df) : \E h \in 1..Len(sink) :
          /\ sink[h]["time"] = data_tuples(df)[k][1]
          /\ sink[h] # ToRow(data_tuples(df)[k])

\* C3 as stated (the sink is keyed on utc_timestamp): the sink holds one row
\* for each distinct UTC timestamp among the records of the committed batches.
C3_KeyedOnUtc == Len(sink) = Cardinality({p[1] : p \in loaded})

\* C3 as amended (the sink is keyed on the local timestamp): the keys of the
\* sink are the local timestamps of the records of the committed batches, one
\* row for each; a row has the columns of the INSERT statement, time holding
\* the local timestamp, and no column for the UTC timestamp.
C3_KeyedOnLocal ==
    /\ Keys(sink) = {p[2] : p \in loaded}
    /\ Len(sink) = Cardinality({p[2] : p \in loaded})
    /\ \A j \in 1..Len(sink) : DOMAIN sink[j] = Range(insert_columns)

\* two committed records with different UTC timestamps and one local
\* timestamp, and a single row
C3_Witness ==
    /\ \E p \in loaded : \E q \in loaded : p[1] # q[1] /\ p[2] = q[2]
    /\ Len(sink) = 1

\* C4 (batch failure isolation): once the except clause has run for a batch,
\* bulk_insert_optimized still returns normally, and by then every batch of
\* the frame has been attempted.
C4_BatchFailureIsolated ==
    failed # {} =>
        /\ pc # "raised"
        /\ pc = "loaded" =>
              attempted = 1..((Len(df) + batch_size - 1) \div batch_size)

\* C5 (file failure isolation): whatever fails in a file, the run ends only
\* after every file glob returned has been read.
C5_FileFailureIsolated ==
    (pc \in Terminal /\ exit_codes = <<>> /\ raised_by # "create_table")
        => files_read = Len(files)

\* C6 (the run always completes): a run that does not stop on a configuration
\* error ends with the summary logged and no exception leaving main.
C6_RunCompletes ==
    (pc \in Terminal /\ exit_codes = <<>> /\ raised_by # "create_table")
        => (pc = "completed" /\ summary.emitted /\ raised_by = "none")

\* C7 (missing configuration is fatal at startup): sys.exit is called at most
\* once; with a required variable unset, main goes no further than
\* load_env_vars: it exits with status 1, having opened no connection and
\* read no file; and it exits there only when a variable is unset.
C7_MissingConfigFatal ==
    /\ Len(exit_codes) <= 1
    /\ (pc # "main" /\ environ # env_vars_to_load) =>
          /\ pc = "exited"
          /\ exit_codes = <<1>>
          /\ conn_opened = 0
          /\ files_read = 0
    /\ pc = "exited" => (environ # env_vars_to_load /\ exit_codes = <<1>>)

\* several variables unset, one exit
C7_Witness ==
    /\ pc = "exited"
    /\ Cardinality(env_vars_to_load \ environ) >= 2
    /\ exit_codes = <<1>>

\* both pairs of a raw row parse
C8_Parses(row) ==
    /\ formatdate_vectorized(row["UTC_DATE"], row["UTC_TIME"]).valid
    /\ formatdate_vectorized(row["LST_DATE"], row["LST_TIME"]).valid

\* the fields a record is read from, for each row of a frame
C8_Origin(rows) ==
    [k \in 1..Len(rows) |-> [c \in Range(text_columns) |-> rows[k][c]]]

\* C8 (timestamp validity gates emission): the frame process_dataframe_optimized
\* returns has, in order, exactly the rows of the raw frame whose two pairs
\* both parse; while it is loaded it has no cell that raised and every tuple
\* built from it has a time; every row of an open transaction and every row
\* of the sink has a time; and no statement fails for a missing time.
C8_TimestampGate ==
    /\ pc = "connect" => C8_Origin(df) = C8_Origin(SelectSeq(raw, C8_Parses))
    /\ pc \in {"connect", "for_batch", "commit", "except", "loaded"} =>
          LET tuples == data_tuples(df)
          IN  \A k \in 1..Len(df) :
                 /\ df[k]["UTC_DATETIME"].valid
                 /\ df[k]["LOCAL_DATETIME"].valid
                 /\ \A c \in DOMAIN df[k] \ {"UTC_DATETIME", "LOCAL_DATETIME"} :
                       df[k][c].t # "raise"
                 /\ tuples[k][1].valid
    /\ \A j \in 1..Len(txn) : txn[j]["time"].valid
    /\ \A j \in 1..Len(sink) : sink[j]["time"].valid
    /\ last_error # "NotNullViolation"

\* a file whose first row has an unparseable pair and whose second row is
\* the one record of the frame to load
C8_Witness ==
    /\ pc = "connect"
    /\ Len(raw) = 2
    /\ ~C8_Parses(raw[1])
    /\ C8_Parses(raw[2])
    /\ Len(df) = 1
    /\ C8_Origin(df) = C8_Origin(<<raw[2]>>)
    /\ data_tuples(df)[1][1].valid

C9_Sentinels == {-99 * Scale, -9999 * Scale}

\* C9 (sentinel normalization): removevaluesnotrecorded returns None for an
\* input that reads as -99 or -9999 and for an input that does not read as a
\* number, and returns every other number unchanged (the number a text reads
\* as); 0 comes back as 0.
C9_SentinelNormalization ==
    v_pc = "cleaned" =>
        LET n == to_numeric(v_in)
        IN  /\ (n.t = "num" /\ n.v \in C9_Sentinels) => v_clean = None
            /\ n.t # "num" => v_clean = None
            /\ (n.t = "num" /\ n.v \notin C9_Sentinels) => v_clean = n
            /\ (v_in.t = "num" /\ v_in.v \notin C9_Sentinels) => v_clean = v_in
            /\ v_in \in {Str(<<"-", "9", "9", ".", "0", "0", "0">>),
                         Str(<<"-", "9", "9", "9", "9", ".", "0">>),
                         Str(<<"-", "9", "9", "9", "9">>),
                         Str(<<"a", "b", "c">>), Str(<<>>),
                         Num(-99 * Scale), Num(-9999 * Scale), NaN, None}
                  => v_clean = None
            /\ v_in \in {Num(0), Str(<<"0">>), Str(<<"0", ".", "0">>)}
                  => v_clean = Num(0)

\* the sentinel as the data files spell it, cleaned to None
C9_Witness ==
    /\ v_pc = "cleaned"
    /\ v_in = Str(<<"-", "9", "9", ".", "0", "0", "0">>)
    /\ v_clean = None

\* C10 (Celsius to Fahrenheit): converttofarenheit of a number c is
\* c * 9/5 + 32 (32 for 0, 212 for 100, -40 for -40); of a missing value it
\* is None; and converttofarenheit(removevaluesnotrecorded(s)) is None for
\* every sentinel s.
C10_CelsiusToFahrenheit ==
    /\ (v_pc = "direct" /\ v_in.t = "num") =>
          /\ v_out.t = "num"
          /\ 5 * (v_out.v - 32 * Scale) = 9 * v_in.v
    /\ (v_pc = "direct" /\ v_in = Num(0)) => v_out = Num(32 * Scale)
    /\ (v_pc = "direct" /\ v_in = Num(100 * Scale)) => v_out = Num(212 * Scale)
    /\ (v_pc = "direct" /\ v_in = Num(-40 * Scale)) => v_out = Num(-40 * Scale)
    /\ (v_pc = "direct" /\ isna(v_in)) => v_out = None
    /\ (v_pc = "converted" /\ to_numeric(v_in).t = "num"
            /\ to_numeric(v_in).v \in {-99 * Scale, -9999 * Scale})
          => v_out = None
    /\ (v_pc = "converted" /\ v_clean = None) => v_out = None

\* a sentinel cleaned and then converted: None, not a number
C10_Witness ==
    /\ v_pc = "converted"
    /\ v_in = Str(<<"-", "9", "9", "9", "9", ".", "0">>)
    /\ v_clean = None
    /\ v_out = None

\* the date and the time formatdate was given, stripped as a field of a
\* fixed-width line is; a missing cell is the empty text
C11_Date == IF f_date.t = "str" THEN strip(f_date.s) ELSE <<>>

C11_Time == IF f_time.t = "str" THEN strip(f_time.s) ELSE <<>>

\* eight digits that name a day of the calendar, in the years a timestamp holds
C11_CalendarDate ==
    /\ Len(C11_Date) = 8
    /\ AllDigits(C11_Date)
    /\ LET y == DigitsVal(SubSeq(C11_Date, 1, 4))
           mo == DigitsVal(SubSeq(C11_Date, 5, 6))
           d == DigitsVal(SubSeq(C11_Date, 7, 8))
       IN  /\ y \in 1678..2261
           /\ mo \in 1..12
           /\ d \in 1..DaysInMonth(y, mo)

\* one to four digits that, padded to HHMM, name a minute of the day
C11_ClockTime ==
    /\ isdigit(C11_Time)
    /\ Len(C11_Time) <= 4
    /\ LET padded == zfill(C11_Time, 4)
       IN  /\ DigitsVal(SubSeq(padded, 1, 2)) <= 23
           /\ DigitsVal(SubSeq(padded, 3, 4)) <= 59

\* the timestamp the digits of the date and of the padded time spell
C11_Expected ==
    LET padded == zfill(C11_Time, 4)
    IN  Timestamp(DigitsVal(SubSeq(C11_Date, 1, 4)),
                  DigitsVal(SubSeq(C11_Date, 5, 6)),
                  DigitsVal(SubSeq(C11_Date, 7, 8)),
                  DigitsVal(SubSeq(padded, 1, 2)),
                  DigitsVal(SubSeq(padded, 3, 4)))

\* an empty, a non-numeric or an out-of-range pair
C11_Malformed ==
    \/ C11_Date = <<>> \/ C11_Time = <<>>
    \/ ~AllDigits(C11_Date) \/ ~AllDigits(C11_Time)
    \/ (Len(C11_Date) = 8 /\ ~C11_CalendarDate)
    \/ ~C11_ClockTime

\* C11 (timestamp derivation): whenever formatdate has returned, on the first
\* call or on a later one, an 8-digit calendar date with a numeric non-empty
\* time has given the timestamp of the date followed by the time padded with
\* zeros to 4 digits ("0000" is midnight), and an empty, non-numeric or
\* out-of-range pair has given None.
C11_FormatDate ==
    f_pc \in {"formatted", "again"} =>
        /\ (C11_CalendarDate /\ C11_ClockTime) => f_out = C11_Expected
        /\ C11_Malformed => f_out = None

\* a measurement field that holds no reading: blank, or a sentinel
C12_Missing(cell) ==
    \/ cell = NaN
    \/ /\ to_numeric(cell).t = "num"
       /\ to_numeric(cell).v \in {-99 * Scale, -9999 * Scale}

C12_AllMissing(row) == \A c \in MeasureCols : C12_Missing(row[c])

C12_AllNone(row) == \A c \in MeasureCols : row[c] = None

\* C12 (missing measurements never reject a row): a raw row whose two pairs
\* parse and whose nine measurement fields are all missing is in the frame
\* process_dataframe_optimized returns, with None in the nine columns; the
\* statement takes such a tuple like any other (after it, the key of every
\* tuple of the batch is in the sink or in the open transaction); and no
\* statement fails for a missing value.
C12_MissingNeverRejects ==
    /\ pc = "connect" =>
          \A k \in 1..Len(raw) :
             (C12_AllMissing(raw[k]) /\ C8_Parses(raw[k])) =>
                \E j \in 1..Len(df) :
                   /\ C8_Origin(<<df[j]>>) = C8_Origin(<<raw[k]>>)
                   /\ C12_AllNone(df[j])
    /\ pc = "commit" =>
          LET sent == batch
              keys == Keys(sink) \cup Keys(txn)
          IN  \A j \in 1..Len(sent) : sent[j][1] \in keys
    /\ last_error \notin {"NotNullViolation", "DataError"}

\* a record with no measurement at all was loaded: its row is in the sink,
\* every measurement column NULL
C12_Witness ==
    /\ pc = "loaded"
    /\ failed = {}
    /\ \E k \in 1..Len(df) :
          /\ C12_AllNone(df[k])
          /\ \E h \in (Len(sink0) + 1)..Len(sink) :
                /\ sink[h]["time"] = df[k]["LOCAL_DATETIME"]
                /\ \A c \in MeasureCols : sink[h][c] = None

\* the measurement columns of a raw row that hold text no number can be read
\* from
C14_NonNumeric(row) ==
    {c \in MeasureCols : row[c].t = "str" /\ to_numeric(row[c]).t # "num"}

\* C14 as stated (a non-numeric measurement is a normalization error that
\* drops the row): of the rows read_fwf reads from a file, none with a
\* non-numeric value in a measurement field is in the frame
\* process_dataframe_optimized returns.
C14_NonNumericDropped ==
    d_pc = "processed" =>
        LET rows == read_fwf(d_lines)
        IN  \A k \in 1..Len(rows) :
               C14_NonNumeric(rows[k]) # {} =>
                  \A j \in 1..Len(d_df) :
                     C8_Origin(<<d_df[j]>>) # C8_Origin(<<rows[k]>>)

\* C14 as amended (a non-numeric measurement becomes missing and the row is
\* kept): the frame process_dataframe_optimized returns has a row for every
\* row read from the file that has a non-numeric measurement field and whose
\* two pairs parse, with None where the field has the non-numeric value; and
\* no measurement of the frame is text or an error.
C14_NonNumericMissing ==
    d_pc = "processed" =>
        LET rows == read_fwf(d_lines)
        IN  /\ \A k \in 1..Len(rows) :
                  LET bad == C14_NonNumeric(rows[k])
                  IN  (bad # {} /\ C8_Parses(rows[k])) =>
                         \E j \in 1..Len(d_df) :
                            /\ C8_Origin(<<d_df[j]>>) = C8_Origin(<<rows[k]>>)
                            /\ \A c \in bad : d_df[j][c] = None
            /\ \A j \in 1..Len(d_df) : \A c \in MeasureCols :
                  d_df[j][c].t \in {"num", "none"}

\* a file whose first line has a non-numeric measurement: both lines of the
\* file are rows of the frame, the first with None in that column
C14_Witness ==
    /\ d_pc = "processed"
    /\ Len(d_lines) = 2
    /\ Len(read_fwf(d_lines)) = 2
    /\ C14_NonNumeric(read_fwf(d_lines)[1]) = {"RH_HR_AVG"}
    /\ Len(d_df) = 2
    /\ C8_Origin(<<d_df[1]>>) = C8_Origin(<<read_fwf(d_lines)[1]>>)
    /\ d_df[1]["RH_HR_AVG"] = None

\* a line of the declared width, and a line cut short of it
C13_WellFormed(line) == Len(line) = LineWidth

C13_Truncated(line) == 0 < Len(line) /\ Len(line) < LineWidth

\* C13 (decoder robustness): the frame read_fwf returns for a file of one
\* well-formed line and one truncated line has exactly one row, the row of
\* the well-formed line: the truncated line is no record (it is the one
\* decode failure of the file).
C13_TruncatedLineSkipped ==
    (/\ d_pc = "loaded"
     /\ Len(d_lines) = 2
     /\ \E k \in 1..2 : C13_WellFormed(d_lines[k]) /\ C13_Truncated(d_lines[3 - k]))
        => /\ Len(d_df) = 1
           /\ \E k \in 1..2 : C13_WellFormed(d_lines[k]) /\ d_df[1] = RowOf(d_lines[k])

\* C15 (schema registry consistency): field_names, colspecs and col_types
\* have 38 entries each, no name is in field_names twice, and the keys of
\* col_types are the names of field_names; so every row read_fwf returns has
\* one column for each of the 38 names, each with a declared type.
C15_RegistryConsistent ==
    /\ Len(field_names) = 38
    /\ Len(colspecs) = 38
    /\ Cardinality(DOMAIN col_types) = 38
    /\ Cardinality(Range(field_names)) = Len(field_names)
    /\ DOMAIN col_types = Range(field_names)
    /\ d_pc = "loaded" =>
          \A k \in 1..Len(d_df) :
             /\ DOMAIN d_df[k] = DOMAIN col_types
             /\ Cardinality(DOMAIN d_df[k]) = Len(colspecs)

\* a file of two lines was read into a frame of two rows of 38 columns
C15_Witness ==
    /\ d_pc = "loaded"
    /\ Len(d_df) = 2
    /\ Cardinality(DOMAIN d_df[1]) = 38
    /\ \A name \in DOMAIN d_df[1] : col_types[name] = "object"

\* C16 (schema layout well-formedness): every range of colspecs has its
\* start before its end, and each range ends at or before the start of the
\* next: the ranges are in the order of their starts and no two overlap (no
\* character of a line of a file is in two ranges).
C16_LayoutWellFormed ==
    /\ \A k \in 1..Len(colspecs) : colspecs[k][1] < colspecs[k][2]
    /\ \A k \in 1..(Len(colspecs) - 1) : colspecs[k][2] <= colspecs[k + 1][1]
    /\ \A j \in 1..Len(colspecs) : \A k \in 1..Len(colspecs) :
          j < k => colspecs[j][1] < colspecs[k][1]
    /\ \A n \in 1..Len(d_lines) : \A p \in 1..Len(d_lines[n]) :
          Cardinality({k \in 1..Len(colspecs) :
                          colspecs[k][1] < p /\ p <= colspecs[k][2]}) <= 1

\* a full line was read with the ranges: every field the pipeline reads came
\* back as it was written, none running into its neighbour
C16_Witness ==
    /\ d_pc = "loaded"
    /\ Len(d_lines) = 1
    /\ d_lines[1] = LineOf(FieldsOf(RowOtherZone))
    /\ Len(d_df) = 1
    /\ \A name \in RawCols : d_df[1][name] = RowOtherZone[name]
    /\ \A name \in Range(field_names) \ RawCols :
          d_df[1][name] = Str(OtherField(name))

\* C17 (the schema consistency invariant is checked at startup): with a
\* registry whose names, ranges and declared types differ in length or in
\* field-name set, the run never holds a frame read from a file and never
\* completes: it has ended with a fatal error before.
C17_SchemaCheckedAtStartup ==
    schema # "consistent" =>
        pc \notin {"process_dataframe", "connect", "for_batch", "commit",
                   "except", "loaded", "completed"}

\* C18 (table creation is idempotent): whenever create_table_if_not_exists
\* has returned, on the first run or on a later one, the table exists, the
\* rows of soildata are the rows it had before the call, the transaction
\* was committed or rolled back and the cursor is closed; and when the
\* statement raised DuplicateTable, the transaction was rolled back, the
\* cursor closed, and the function returned: no exception left it.
C18_CreateTableIdempotent ==
    /\ pc = "processdata" =>
          /\ table_exists
          /\ sink = sink0
          /\ raised_by = "none"
          /\ ddl.statement \in {"ok", "DuplicateTable"}
          /\ ddl.cursor = "closed"
    /\ ddl.statement = "DuplicateTable" =>
          /\ pc = "processdata"
          /\ ddl.txn = "rolled_back"
          /\ ddl.cursor = "closed"
          /\ raised_by = "none"
          /\ sink = sink0

\* a later run on a table with rows: the statement raised DuplicateTable
\* and the function returned, the rows as they were
C18_Witness ==
    /\ pc = "processdata"
    /\ ddl.statement = "DuplicateTable"
    /\ Len(sink) >= 2
    /\ sink = sink0

\* C19 (the summary reports records inserted): when a file's load is over,
\* the running total grows by the number of rows the load added to the sink
\* (rows of rolled-back batches and rows ignored on a key conflict are not
\* counted); and the summary logged at the end of processdata reports that
\* total as total_records_inserted, and the number of files the pattern
\* matched as total_files_processed.
C19_SummaryCountsInserted ==
    [][/\ (pc = "loaded" /\ pc' = "for_file") =>
             total_records' - total_records = Len(sink) - Len(sink0)
       /\ (pc = "for_file" /\ pc' = "completed") =>
             /\ summary'.total_records_inserted = total_records
             /\ summary'.total_files_processed = Len(files)]_vars

\* ceil(n / b)
C20_Ceil(n, b) == (n + b - 1) \div b

\* the statement of batch k was given the records at positions
\* (k-1)*b+1 .. min(k*b, n), in arrival order: b of them, or the rest in the
\* last batch
C20_BatchIsSlice ==
    LET n == Len(df)
        b == batch_size
        k == batch_number
        last == IF k * b < n THEN k * b ELSE n
    IN  /\ k \in 1..C20_Ceil(n, b)
        /\ Len(batch) = last - (k - 1) * b
        /\ \A j \in 1..Len(batch) : batch[j] = data_tuples(df)[(k - 1) * b + j]
        /\ Len(batch) <= b
        /\ k < C20_Ceil(n, b) => Len(batch) = b

\* C20 (batching): every statement bulk_insert_optimized issues is for the
\* next slice of b records, and when the call is over, by a return or by an
\* exception, it has issued the statements of the batches 1..ceil(n/b), so
\* every record was in exactly one batch.
C20_Batching ==
    /\ pc \in {"commit", "except"} => C20_BatchIsSlice
    /\ pc \in {"for_batch", "commit", "except", "loaded"} =>
          attempted \subseteq 1..C20_Ceil(Len(df), batch_size)
    /\ (pc = "loaded" \/ (pc = "raised" /\ raised_by = "rollback")) =>
          attempted = 1..C20_Ceil(Len(df), batch_size)

\* C21 (successful batches commit immediately and stay committed): the commit
\* of a batch puts the rows of its statement in the sink at once and leaves no
\* transaction open for the next batch; no later step removes or changes a
\* row of the sink, and the except clause of a later batch, of this file or
\* of a later one, leaves the sink as it is.
C21_CommittedStays ==
    [][/\ Len(sink') >= Len(sink)
       /\ \A j \in 1..Len(sink) : sink'[j] = sink[j]
       /\ pc = "commit" /\ pc' = "for_batch" =>
             /\ sink' = sink \o txn
             /\ txn' = <<>>
       /\ pc = "except" => sink' = sink
       /\ pc' = "for_batch" => txn' = <<>>]_vars

\* a batch of the current file failed and was rolled back after an earlier
\* batch of the file had been committed: the rows of the earlier batch, and
\* the rows earlier files left, are in the sink
C21_Witness ==
    /\ pc = "for_batch"
    /\ sink0 # <<>>
    /\ Len(sink) > Len(sink0)
    /\ SubSeq(sink, 1, Len(sink0)) = sink0
    /\ \E a \in attempted \ failed : \E b \in failed : a < b

\* the states in which a file is being decoded, normalized or loaded
C22_Processing ==
    {"process_dataframe", "connect", "for_batch", "commit", "except", "loaded"}

\* C22 (per-file ordering): a frame is normalized only right after read_fwf
\* returned it, and loaded only right after it was normalized; a file is
\* read only between files, when every file read before it has ended; a
\* file ends only when its load has returned; so while a file is being
\* processed it is the only one read and not ended, and between files there
\* is none.
C22_PerFileOrdering ==
    [][/\ pc' = "process_dataframe" => (pc = "for_file" /\ df' = df)
       /\ pc' = "connect" => (pc = "process_dataframe" /\ raw' = raw)
       /\ (pc' = "for_batch" /\ pc # "for_batch") =>
             (pc \in {"connect", "commit", "except"} /\ df' = df)
       /\ pc' = "loaded" => (pc = "for_batch" /\ i >= Len(df))
       /\ files_read' > files_read =>
             /\ pc = "for_file"
             /\ files_read = file_idx
             /\ files_read' = files_read + 1
       /\ file_idx' > file_idx =>
             /\ pc = "loaded"
             /\ pc' = "for_file"
             /\ file_idx' = file_idx + 1
       /\ pc' \in C22_Processing => files_read' = file_idx' + 1
       /\ pc' = "for_file" => files_read' = file_idx']_vars

\* the second file of a run is being normalized: the first has ended
C22_Witness ==
    /\ pc = "process_dataframe"
    /\ file_idx = 1
    /\ files_read = 2
    /\ Len(files) = 2
    /\ Len(raw) = 2

\* an error of a statement that comes from a key another row has
C23_KeyConflictErrors == {"UniqueViolation", "DeadlockDetected"}

\* C23 (concurrent runs are safe through the upsert alone): with two
\* processes loading frames with overlapping timestamps into one sink, the
\* sink never has two rows with one key, and no statement of either process
\* fails because of a key the other process wrote.
C23_ConcurrentRunsSafe ==
    /\ Cardinality(Keys(sink)) = Len(sink)
    /\ \A p \in DOMAIN loaders :
          loaders[p].last_error \notin C23_KeyConflictErrors

\* the columns in which two rows differ
C24_DiffCols(r1, r2) == {c \in DOMAIN r1 : r1[c] # r2[c]}

\* a measurement field that holds a sentinel
C24_Sentinel(cell) ==
    to_numeric(cell).t = "num" /\ to_numeric(cell).v \in {-99 * Scale, -9999 * Scale}

\* the second row has sentinels in SOIL_TEMP_5 and SOIL_TEMP_20, the first
\* has readings there, and both have their two timestamps
C24_SentinelsInSecond(r1, r2) ==
    /\ C8_Parses(r1) /\ C8_Parses(r2)
    /\ \A c \in {"SOIL_TEMP_5", "SOIL_TEMP_20"} :
          /\ C24_Sentinel(r2[c])
          /\ to_numeric(r1[c]).t = "num" /\ ~C24_Sentinel(r1[c])

\* what the sink holds after the pipeline ran on the two rows r1, r2: two
\* rows; the first is the row r1 alone gives; the second has SOIL_TEMP_5 and
\* SOIL_TEMP_20 missing and every other measurement as the first has it
C24_TwoRows(r1) ==
    /\ Len(sink) = 2
    /\ sink[1] = ToRow(data_tuples(process_dataframe_optimized(<<r1>>))[1])
    /\ sink[2]["SOIL_TEMP_5"] = None
    /\ sink[2]["SOIL_TEMP_20"] = None
    /\ \A c \in MeasureCols \ {"SOIL_TEMP_5", "SOIL_TEMP_20"} :
          sink[2][c] = sink[1][c] /\ sink[2][c].t = "num"

\* C24 as stated (sentinel removal is per row and per column): from a file of
\* two records that differ only in the second having sentinels in SOIL_TEMP_5
\* and SOIL_TEMP_20, the pipeline inserts two rows, the second with exactly
\* those two missing.
C24_SentinelPerField ==
    d_pc = "inserted" =>
        LET rows == read_fwf(d_lines)
        IN  (/\ Len(rows) = 2
             /\ C24_SentinelsInSecond(rows[1], rows[2])
             /\ C24_DiffCols(rows[1], rows[2]) = {"SOIL_TEMP_5", "SOIL_TEMP_20"})
                => C24_TwoRows(rows[1])

\* C24 as amended (the two records have different local timestamps): from a
\* file of two records with different local timestamps that differ otherwise
\* only in the second having sentinels in SOIL_TEMP_5 and SOIL_TEMP_20, the
\* pipeline inserts two rows, the second with exactly those two missing and
\* every other measurement equal to the first row's.
C24_SentinelPerFieldOtherTime ==
    d_pc = "inserted" =>
        LET rows == read_fwf(d_lines)
        IN  (/\ Len(rows) = 2
             /\ C24_SentinelsInSecond(rows[1], rows[2])
             /\ C24_DiffCols(rows[1], rows[2])
                     \ {"UTC_DATE", "UTC_TIME", "LST_DATE", "LST_TIME"}
                   = {"SOIL_TEMP_5", "SOIL_TEMP_20"}
             /\ formatdate_vectorized(rows[1]["LST_DATE"], rows[1]["LST_TIME"])
                   # formatdate_vectorized(rows[2]["LST_DATE"], rows[2]["LST_TIME"]))
                => /\ C24_TwoRows(rows[1])
                   /\ sink[2]["time"] # sink[1]["time"]

\* the file of the scenario went through the pipeline: two rows, the second
\* a quarter of an hour after the first
C24_Witness ==
    /\ d_pc = "inserted"
    /\ d_lines = <<LineOf(FieldsOf(BaseRow)), LineOf(FieldsOf(RowSentinelsNext))>>
    /\ Len(sink) = 2
    /\ sink[2]["SOIL_TEMP_5"] = None
    /\ sink[2]["SOIL_TEMP_10"] = sink[1]["SOIL_TEMP_10"]

\* the rows of a raw frame that process_dataframe_optimized keeps
C25_Kept(rows) == SelectSeq(rows, C8_Parses)

\* the seven temperature fields
C25_Temperatures ==
    {"SOIL_TEMP_5", "SOIL_TEMP_10", "SOIL_TEMP_20", "SOIL_TEMP_50",
     "SOIL_TEMP_100", "T_CALC", "T_HR_AVG"}

\* a field whose text is a number that is no sentinel
C25_Reading(cell) == to_numeric(cell).t = "num" /\ ~C24_Sentinel(cell)

\* C25 (unit conversion on exactly the seven temperature fields): in the frame
\* process_dataframe_optimized returns, a reading in one of the seven
\* temperature fields is its Fahrenheit value (C * 9/5 + 32), a reading in
\* P_CALC or RH_HR_AVG is the number it was, a sentinel in any of the nine is
\* missing, and every other field of the record, the station identifier
\* among them, is the text read_fwf gave (a blank field stays missing).
C25_ConversionOnTemperaturesOnly ==
    d_pc = "processed" =>
        LET kept == C25_Kept(read_fwf(d_lines))
        IN  /\ Len(d_df) = Len(kept)
            /\ \A j \in 1..Len(kept) : \A c \in DOMAIN kept[j] :
                  LET in == kept[j][c]
                      out == d_df[j][c]
                  IN  /\ c \in C25_Temperatures /\ C25_Reading(in) =>
                            /\ out.t = "num"
                            /\ out.v * 5 = to_numeric(in).v * 9 + 32 * Scale * 5
                      /\ c \in {"P_CALC", "RH_HR_AVG"} /\ C25_Reading(in) =>
                            out = to_numeric(in)
                      /\ c \in MeasureCols /\ C24_Sentinel(in) => out = None
                      /\ c \notin C25_Temperatures \cup {"P_CALC", "RH_HR_AVG"} =>
                            IF in.t = "str" THEN out = in ELSE out = None

\* a processed file whose record has readings in T_CALC (-40, which the
\* conversion leaves at -40) and P_CALC, sentinels, and a station identifier
C25_Witness ==
    /\ d_pc = "processed"
    /\ Len(d_df) = 2
    /\ d_df[1]["WBANNO"] = RowOtherZone["WBANNO"]
    /\ d_df[1]["T_CALC"] = Num(-40 * Scale)
    /\ d_df[1]["SOIL_TEMP_10"] = Num(6116 * (Scale \div 100))
    /\ d_df[1]["P_CALC"] = Num(25 * (Scale \div 10))
    /\ d_df[1]["SOIL_TEMP_5"] = None
    /\ d_df[2]["P_CALC"] = None

\* the fields that tell which record a row is
C26_Identity(row) ==
    [c \in {"WBANNO", "UTC_DATE", "UTC_TIME", "LST_DATE", "LST_TIME"} |-> row[c]]

\* a is b with some of its elements left out, the others in their order
RECURSIVE C26_Subsequence(_, _)
C26_Subsequence(a, b) ==
    IF a = <<>> THEN TRUE
    ELSE IF b = <<>> THEN FALSE
    ELSE IF Head(a) = Head(b) THEN C26_Subsequence(Tail(a), Tail(b))
    ELSE C26_Subsequence(a, Tail(b))

\* the rows of a raw frame with a pair that does not parse
C26_Invalid(rows) == {k \in 1..Len(rows) : ~C8_Parses(rows[k])}

\* C26 (normalizer conservation): the frame process_dataframe_optimized
\* returns is a subsequence of its input, never longer and in the input's
\* order; a removal is logged exactly when a record has an invalid UTC or
\* local timestamp, and the logged removed_count is the number of such
\* records, with initial_count = valid_records + removed_count.
C26_NormalizerConservation ==
    d_pc = "processed" =>
        LET rows == read_fwf(d_lines)
            invalid == Cardinality(C26_Invalid(rows))
        IN  /\ Len(d_df) <= Len(rows)
            /\ Len(d_df) = Len(rows) - invalid
            /\ C26_Subsequence([j \in 1..Len(d_df) |-> C26_Identity(d_df[j])],
                               [k \in 1..Len(rows) |-> C26_Identity(rows[k])])
            /\ d_log.logged <=> invalid > 0
            /\ d_log.raised = "none"
            /\ d_log.logged =>
                  /\ d_log.removed_count = invalid
                  /\ d_log.initial_count = Len(rows)
                  /\ d_log.valid_records = Len(d_df)
                  /\ d_log.initial_count = d_log.valid_records + d_log.removed_count

\* a file of two records, the first with no local time: one row removed,
\* one kept, and the removal logged as 50.0 per cent
C26_Witness ==
    /\ d_pc = "processed"
    /\ Len(read_fwf(d_lines)) = 2
    /\ C26_Invalid(read_fwf(d_lines)) = {1}
    /\ formatdate_vectorized(read_fwf(d_lines)[1]["UTC_DATE"],
                             read_fwf(d_lines)[1]["UTC_TIME"]).valid
    /\ Len(d_df) = 1
    /\ d_log.logged
    /\ d_log.removed_count = 1
    /\ d_log.removal_percentage = 500

\* the five soil-temperature columns
C27_SoilColumns ==
    {"SOIL_TEMP_5", "SOIL_TEMP_10", "SOIL_TEMP_20", "SOIL_TEMP_50", "SOIL_TEMP_100"}

\* C27 (persisted measurements equal normalized measurements): every row of
\* the sink holds, in each of the five soil-temperature columns, SOIL_TEMP_5
\* like the other four, the value the normalizer computed for a record of that
\* local time, neither truncated nor rounded.
C27_StoredAsNormalized ==
    d_pc = "inserted" =>
        \A k \in 1..Len(sink) :
            \E j \in 1..Len(d_df) :
                /\ d_df[j]["LOCAL_DATETIME"] = sink[k]["time"]
                /\ \A c \in C27_SoilColumns : sink[k][c] = d_df[j][c]

\* C28 (the two pipeline variants are row-equivalent): on every frame of
\* text-typed records, process_dataframe_optimized of
\* processsoildata_optimized.py returns, and returns the rows that
\* process_dataframe_optimized of processsoildata.py returns, in the same
\* order.
C28_VariantsRowEquivalent ==
    d_pc = "processed" =>
        /\ d_opt.raised = "none"
        /\ d_opt.rows = d_df

\* how the create statement ends when create_table_if_not_exists returns
C29_Returns == {"ok", "DuplicateTable"}

\* C29 (a sink failure during table creation is fatal): when
\* create_table_if_not_exists cannot connect, or its statement raises
\* anything but DuplicateTable, the error leaves main; processdata starts
\* only after the function returned; and the run that ended so has read no
\* file, written no row and logged no summary, and does nothing more.
C29_TableCreationFatal ==
    [][/\ pc = "create_table" /\ ddl'.statement \notin C29_Returns =>
             /\ pc' = "raised"
             /\ raised_by' = "create_table"
             /\ sink' = sink
             /\ files_read' = 0
       /\ pc' = "processdata" =>
             /\ pc = "create_table"
             /\ ddl'.statement \in C29_Returns
       /\ pc = "raised" /\ raised_by = "create_table" =>
             /\ pc' = "main"
             /\ sink' = sink
             /\ files_read = 0 /\ files = <<>> /\ conn = "none"
             /\ ~summary.emitted]_vars

\* a later run on a sink that holds rows: the create statement raised, and
\* the run ended there
C29_Witness ==
    /\ pc = "raised"
    /\ raised_by = "create_table"
    /\ ddl.statement = "error"
    /\ sink # <<>>
    /\ files_read = 0

\* C30 (empty inputs are handled without error): when the pattern matches no
\* file, processdata goes straight to its summary of 0 files and 0 records
\* and opens no connection (a connection is opened only by
\* create_table_if_not_exists and by a file's load); process_dataframe_optimized
\* returns for every frame, a frame of no record or of no valid record
\* included; for an empty frame the loader executes no statement, the sink
\* stays as it was, and the cumulative count of records does not change.
C30_EmptyInputs ==
    [][/\ pc = "processdata" /\ files' = <<>> =>
             /\ pc' = "for_file"
             /\ conn_opened' = conn_opened
       /\ pc = "for_file" /\ files = <<>> =>
             /\ pc' = "completed"
             /\ summary' = [emitted |-> TRUE, total_files_processed |-> 0,
                            total_records_inserted |-> 0]
             /\ conn_opened' = conn_opened
             /\ files_read' = 0
             /\ sink' = sink
       /\ conn_opened' > conn_opened => pc \in {"create_table", "connect"}
       /\ pc = "process_dataframe" =>
             /\ pc' = "connect"
             /\ raised_by' = "none"
             /\ Len(df') <= Len(raw)
       /\ pc = "for_batch" /\ df = <<>> =>
             /\ pc' = "loaded"
             /\ attempted' = {}
             /\ txn' = <<>>
             /\ sink' = sink
       /\ pc = "loaded" /\ df = <<>> =>
             /\ total_records' = total_records
             /\ sink' = sink
             /\ sink = sink0]_vars

\* the second file of a run gave records, none of them valid: the function
\* returned an empty frame, and the first file's records are counted
C30_Witness ==
    /\ pc = "connect"
    /\ raw # <<>>
    /\ df = <<>>
    /\ file_idx = 1
    /\ total_records > 0
====
